---------------------------- MODULE Spec2Model ----------------------------
(***************************************************************************)
(* Model of mitre-sig-converter: the Technique record and its indicator    *)
(* lookups, the YARA / Sigma / KQL converters, the MitreApi catalogue,     *)
(* the signatures table of DatabaseHandler and the files convert_technique *)
(* writes.                                                                 *)
(*                                                                         *)
(* A Python str is a sequence of one-character strings, so that substring  *)
(* tests, lower(), split(), replace() and re.findall are computed and not  *)
(* assumed.  A Python list is a sequence, a dict with fixed keys a record. *)
(* A call's outcome is [kind |-> "return", value |-> v] or                 *)
(* [kind |-> "raise", exc |-> name].                                       *)
(***************************************************************************)
EXTENDS Integers, Sequences, FiniteSets, TLC

VARIABLES
    technique,   \* the Technique object handed to the converters
    last,        \* the most recent call: [op, arg, out]
    prev,        \* the call before it, when it was the same call; else NoCall
    wpc,         \* per worker: the statement of convert() it is about to run
    wself,       \* per worker: the converter instance its convert() runs on
    wtechnique,  \* per worker: the argument of its convert()
    wcontext,    \* per worker: the local variable `context` of convert()
    wresult,     \* per worker: what its convert() returned or raised
    wseen,       \* per worker: where the other workers were when it started
    env,         \* per converter instance: the templates self.env has loaded
    signatures,  \* the rows of the signatures table
    sqlite_sequence,  \* the largest rowid the signatures table ever used
    saved,       \* per (technique_id, format): content of the latest save
    output_files \* the output directory: file name and text of each file

callVars == <<technique, last, prev>>

workerVars == <<wpc, wself, wtechnique, wcontext, wresult, wseen, env>>

dbVars == <<signatures, sqlite_sequence, saved>>

fileVars == <<output_files>>

vars == <<callVars, workerVars, dbVars, fileVars>>

(***************************************************************************)
(* str: the operations of Python's str the program uses                    *)
(***************************************************************************)
UpperChars == <<"A","B","C","D","E","F","G","H","I","J","K","L","M","N","O","P","Q","R","S","T","U","V","W","X","Y","Z">>

LowerChars == <<"a","b","c","d","e","f","g","h","i","j","k","l","m","n","o","p","q","r","s","t","u","v","w","x","y","z">>

DigitChars == <<"0","1","2","3","4","5","6","7","8","9">>

\* str.lower() on one character (ASCII)
LowerChar(c) ==
    IF \E i \in DOMAIN UpperChars : UpperChars[i] = c
    THEN LowerChars[CHOOSE i \in DOMAIN UpperChars : UpperChars[i] = c]
    ELSE c

\* s.lower()
Lower(s) == [i \in DOMAIN s |-> LowerChar(s[i])]

\* s.startswith(p)
StartsWith(s, p) == Len(p) <= Len(s) /\ SubSeq(s, 1, Len(p)) = p

\* sub in s
Contains(s, sub) ==
    \E i \in 1..(Len(s) - Len(sub) + 1) : SubSeq(s, i, i + Len(sub) - 1) = sub

\* index of the first occurrence of character c in s, 0 when absent
IndexOf(s, c) ==
    IF \E i \in DOMAIN s : s[i] = c
    THEN CHOOSE i \in DOMAIN s : s[i] = c /\ \A j \in 1..(i - 1) : s[j] # c
    ELSE 0

\* s.split(c)[0]
SplitFirst(s, c) ==
    IF IndexOf(s, c) = 0 THEN s ELSE SubSeq(s, 1, IndexOf(s, c) - 1)

RECURSIVE ReplaceChar(_, _, _)
\* s.replace(c, r) for a one-character c
ReplaceChar(s, c, r) ==
    IF s = << >> THEN << >>
    ELSE (IF Head(s) = c THEN r ELSE <<Head(s)>>) \o ReplaceChar(Tail(s), c, r)

RECURSIVE Split(_, _)
\* s.split(c) for a one-character c
Split(s, c) ==
    IF IndexOf(s, c) = 0 THEN <<s>>
    ELSE <<SubSeq(s, 1, IndexOf(s, c) - 1)>>
         \o Split(SubSeq(s, IndexOf(s, c) + 1, Len(s)), c)

RECURSIVE LStrip(_, _)
LStrip(s, chars) ==
    IF s # << >> /\ Head(s) \in chars THEN LStrip(Tail(s), chars) ELSE s

RECURSIVE RStrip(_, _)
RStrip(s, chars) ==
    IF s # << >> /\ s[Len(s)] \in chars
    THEN RStrip(SubSeq(s, 1, Len(s) - 1), chars) ELSE s

\* s.strip(chars)
Strip(s, chars) == RStrip(LStrip(s, chars), chars)

\* the characters s.strip() removes
Whitespace == {" ", "\t", "\n", "\r"}

RECURSIVE IntToStr(_)
\* str(n) for n >= 0
IntToStr(n) ==
    IF n < 10 THEN <<DigitChars[n + 1]>>
    ELSE IntToStr(n \div 10) \o <<DigitChars[(n % 10) + 1]>>

RECURSIVE Join(_, _)
\* sep.join(xs)
Join(sep, xs) ==
    IF xs = << >> THEN << >>
    ELSE IF Len(xs) = 1 THEN xs[1]
    ELSE xs[1] \o sep \o Join(sep, Tail(xs))

\* the characters \w matches (ASCII)
WordChars ==
    {UpperChars[i] : i \in DOMAIN UpperChars}
    \cup {LowerChars[i] : i \in DOMAIN LowerChars}
    \cup {DigitChars[i] : i \in DOMAIN DigitChars} \cup {"_"}

RECURSIVE FindWords(_, _)
\* re.findall(r'\b\w+\b', s): the maximal runs of word characters, cur is
\* the run being read
FindWords(s, cur) ==
    IF s = << >> THEN (IF cur = << >> THEN << >> ELSE <<cur>>)
    ELSE IF Head(s) \in WordChars THEN FindWords(Tail(s), Append(cur, Head(s)))
    ELSE (IF cur = << >> THEN << >> ELSE <<cur>>) \o FindWords(Tail(s), << >>)

\* the last occurrences of the elements of xs, in order
DedupKeepLast(xs) ==
    LET keep == {i \in DOMAIN xs : \A j \in (i + 1)..Len(xs) : xs[j] # xs[i]}
        F[i \in 0..Len(xs)] ==
            IF i = 0 THEN << >>
            ELSE IF i \in keep THEN Append(F[i - 1], xs[i]) ELSE F[i - 1]
    IN F[Len(xs)]

\* list(dict.fromkeys(xs)): first occurrences, in order
Dedup(xs) ==
    LET keep == {i \in DOMAIN xs : \A j \in 1..(i - 1) : xs[j] # xs[i]}
        F[i \in 0..Len(xs)] ==
            IF i = 0 THEN << >>
            ELSE IF i \in keep THEN Append(F[i - 1], xs[i]) ELSE F[i - 1]
    IN F[Len(xs)]

\* xs[:n]
Take(xs, n) == SubSeq(xs, 1, IF Len(xs) < n THEN Len(xs) ELSE n)

\* the elements of a list
Range(xs) == {xs[i] : i \in DOMAIN xs}

(***************************************************************************)
(* Outcomes and attribute access                                           *)
(***************************************************************************)
None == [pytype |-> "NoneType"]

Return(v) == [kind |-> "return", value |-> v]

Raise(e) == [kind |-> "raise", exc |-> e]

Raised(o) == o.kind = "raise"

\* the fields of the Technique dataclass and the methods the class defines
TechniqueAttrs ==
    {"id", "name", "description", "tactics", "platforms", "data_sources",
     "detection", "related_techniques", "is_subtechnique",
     "get_detection_patterns", "is_applicable_to_platform",
     "get_common_processes", "get_common_files", "get_common_registry_keys",
     "get_common_network_indicators", "get_environment_agnostic_patterns"}

\* whether obj.a exists; reading a missing attribute raises AttributeError
HasAttr(obj, a) == obj # None /\ a \in TechniqueAttrs

\* obj.a for a data attribute a
GetAttr(obj, a) == IF HasAttr(obj, a) THEN Return(obj[a]) ELSE Raise("AttributeError")

(***************************************************************************)
(* models/technique.py: the Technique dataclass and its indicator lookups  *)
(***************************************************************************)
\* Technique(...): the dataclass constructor stores its nine arguments
Technique(id, name, description, tactics, platforms, data_sources, detection, related_techniques, is_subtechnique) ==
    [pytype |-> "Technique", id |-> id, name |-> name,
     description |-> description, tactics |-> tactics, platforms |-> platforms,
     data_sources |-> data_sources, detection |-> detection,
     related_techniques |-> related_techniques,
     is_subtechnique |-> is_subtechnique]

\* table.get(key) of a literal dict written as a list of [k, v]; << >> when absent
Lookup(table, key) ==
    IF \E i \in DOMAIN table : table[i].k = key
    THEN table[CHOOSE i \in DOMAIN table : table[i].k = key].v
    ELSE << >>

\* any(p.lower() in names for p in platforms)
PlatformIn(platforms, names) ==
    \E i \in DOMAIN platforms : Lower(platforms[i]) \in names

windows_processes ==
    << [k |-> <<"T","1","0","5","5">>, v |-> <<<<"e","x","p","l","o","r","e","r",".","e","x","e">>, <<"l","s","a","s","s",".","e","x","e">>, <<"s","e","r","v","i","c","e","s",".","e","x","e">>, <<"s","v","c","h","o","s","t",".","e","x","e">>>>],
       [k |-> <<"T","1","0","5","9">>, v |-> <<<<"c","m","d",".","e","x","e">>, <<"p","o","w","e","r","s","h","e","l","l",".","e","x","e">>, <<"w","s","c","r","i","p","t",".","e","x","e">>, <<"c","s","c","r","i","p","t",".","e","x","e">>>>],
       [k |-> <<"T","1","0","5","3">>, v |-> <<<<"s","c","h","t","a","s","k","s",".","e","x","e">>, <<"a","t",".","e","x","e">>>>],
       [k |-> <<"T","1","2","1","8">>, v |-> <<<<"r","e","g","s","v","r","3","2",".","e","x","e">>, <<"r","u","n","d","l","l","3","2",".","e","x","e">>, <<"m","s","i","e","x","e","c",".","e","x","e">>>>] >>

unix_processes ==
    << [k |-> <<"T","1","0","5","9">>, v |-> <<<<"b","a","s","h">>, <<"s","h">>, <<"p","y","t","h","o","n">>, <<"p","e","r","l">>, <<"r","u","b","y">>>>],
       [k |-> <<"T","1","0","5","3">>, v |-> <<<<"c","r","o","n">>, <<"a","t">>>>],
       [k |-> <<"T","1","5","4","3">>, v |-> <<<<"s","y","s","t","e","m","c","t","l">>, <<"l","a","u","n","c","h","c","t","l">>, <<"s","e","r","v","i","c","e">>>>] >>

\* Technique.get_common_processes
get_common_processes(t) ==
    LET base_id == SplitFirst(t.id, ".")
        win == IF PlatformIn(t.platforms, {<<"w","i","n","d","o","w","s">>, <<"w","i","n">>})
               THEN Lookup(windows_processes, base_id) ELSE << >>
        unix == IF PlatformIn(t.platforms, {<<"l","i","n","u","x">>, <<"m","a","c","o","s">>, <<"m","a","c"," ","o","s">>})
                THEN Lookup(unix_processes, base_id) ELSE << >>
    IN win \o unix

windows_autostart_files ==
    <<<<"C",":","\\","W","i","n","d","o","w","s","\\","S","y","s","t","e","m","3","2","\\","T","a","s","k","s","\\","*">>,
      <<"C",":","\\","P","r","o","g","r","a","m","D","a","t","a","\\","M","i","c","r","o","s","o","f","t","\\","W","i","n","d","o","w","s","\\","S","t","a","r","t"," ","M","e","n","u","\\","P","r","o","g","r","a","m","s","\\","S","t","a","r","t","u","p","\\","*">>,
      <<"H","K","L","M","\\","S","o","f","t","w","a","r","e","\\","M","i","c","r","o","s","o","f","t","\\","W","i","n","d","o","w","s","\\","C","u","r","r","e","n","t","V","e","r","s","i","o","n","\\","R","u","n","\\","*">>,
      <<"H","K","C","U","\\","S","o","f","t","w","a","r","e","\\","M","i","c","r","o","s","o","f","t","\\","W","i","n","d","o","w","s","\\","C","u","r","r","e","n","t","V","e","r","s","i","o","n","\\","R","u","n","\\","*">>>>

windows_script_files == <<<<"*",".","p","s","1">>, <<"*",".","b","a","t">>, <<"*",".","c","m","d">>, <<"*",".","v","b","s">>, <<"*",".","j","s">>>>

unix_autostart_files ==
    <<<<"/","e","t","c","/","i","n","i","t",".","d","/","*">>, <<"/","e","t","c","/","c","r","o","n","t","a","b">>, <<"/","e","t","c","/","c","r","o","n",".","*","/","*">>,
      <<"/","L","i","b","r","a","r","y","/","L","a","u","n","c","h","A","g","e","n","t","s","/","*">>, <<"/","L","i","b","r","a","r","y","/","L","a","u","n","c","h","D","a","e","m","o","n","s","/","*">>,
      <<"~","/",".","b","a","s","h","_","p","r","o","f","i","l","e">>, <<"~","/",".","b","a","s","h","r","c">>>>

\* Technique.get_common_files
get_common_files(t) ==
    LET win == IF PlatformIn(t.platforms, {<<"w","i","n","d","o","w","s">>})
               THEN (IF StartsWith(t.id, <<"T","1","5","4","7">>) THEN windows_autostart_files
                     ELSE IF StartsWith(t.id, <<"T","1","0","5","9">>) THEN windows_script_files
                     ELSE << >>)
               ELSE << >>
        unix == IF PlatformIn(t.platforms, {<<"l","i","n","u","x">>, <<"m","a","c","o","s">>})
                   /\ StartsWith(t.id, <<"T","1","5","4","7">>)
                THEN unix_autostart_files ELSE << >>
    IN win \o unix

autostart_registry_keys ==
    <<<<"H","K","L","M","\\","S","O","F","T","W","A","R","E","\\","M","i","c","r","o","s","o","f","t","\\","W","i","n","d","o","w","s","\\","C","u","r","r","e","n","t","V","e","r","s","i","o","n","\\","R","u","n">>,
      <<"H","K","C","U","\\","S","O","F","T","W","A","R","E","\\","M","i","c","r","o","s","o","f","t","\\","W","i","n","d","o","w","s","\\","C","u","r","r","e","n","t","V","e","r","s","i","o","n","\\","R","u","n">>,
      <<"H","K","L","M","\\","S","O","F","T","W","A","R","E","\\","M","i","c","r","o","s","o","f","t","\\","W","i","n","d","o","w","s","\\","C","u","r","r","e","n","t","V","e","r","s","i","o","n","\\","R","u","n","O","n","c","e">>,
      <<"H","K","C","U","\\","S","O","F","T","W","A","R","E","\\","M","i","c","r","o","s","o","f","t","\\","W","i","n","d","o","w","s","\\","C","u","r","r","e","n","t","V","e","r","s","i","o","n","\\","R","u","n","O","n","c","e">>>>

modify_registry_keys ==
    <<<<"H","K","L","M","\\","S","Y","S","T","E","M","\\","C","u","r","r","e","n","t","C","o","n","t","r","o","l","S","e","t","\\","S","e","r","v","i","c","e","s">>,
      <<"H","K","L","M","\\","S","O","F","T","W","A","R","E","\\","M","i","c","r","o","s","o","f","t","\\","W","i","n","d","o","w","s"," ","N","T","\\","C","u","r","r","e","n","t","V","e","r","s","i","o","n","\\","I","m","a","g","e"," ","F","i","l","e"," ","E","x","e","c","u","t","i","o","n"," ","O","p","t","i","o","n","s">>,
      <<"H","K","L","M","\\","S","O","F","T","W","A","R","E","\\","M","i","c","r","o","s","o","f","t","\\","W","i","n","d","o","w","s"," ","N","T","\\","C","u","r","r","e","n","t","V","e","r","s","i","o","n","\\","W","i","n","l","o","g","o","n","\\","N","o","t","i","f","y">>,
      <<"H","K","L","M","\\","S","O","F","T","W","A","R","E","\\","M","i","c","r","o","s","o","f","t","\\","W","i","n","d","o","w","s"," ","N","T","\\","C","u","r","r","e","n","t","V","e","r","s","i","o","n","\\","W","i","n","l","o","g","o","n","\\","S","h","e","l","l">>>>

\* Technique.get_common_registry_keys
get_common_registry_keys(t) ==
    IF ~PlatformIn(t.platforms, {<<"w","i","n","d","o","w","s">>}) THEN << >>
    ELSE IF StartsWith(t.id, <<"T","1","5","4","7">>) THEN autostart_registry_keys
    ELSE IF StartsWith(t.id, <<"T","1","1","1","2">>) THEN modify_registry_keys
    ELSE << >>

\* Technique.get_common_network_indicators
get_common_network_indicators(t) ==
    IF StartsWith(t.id, <<"T","1","0","7","1">>) THEN
        <<<<"U","n","u","s","u","a","l"," ","o","u","t","b","o","u","n","d"," ","c","o","n","n","e","c","t","i","o","n","s"," ","t","o"," ","h","i","g","h"," ","p","o","r","t","s">>,
          <<"D","N","S"," ","q","u","e","r","i","e","s"," ","w","i","t","h"," ","h","i","g","h"," ","e","n","t","r","o","p","y"," ","o","r"," ","e","n","c","o","d","e","d"," ","d","a","t","a">>,
          <<"H","T","T","P","/","H","T","T","P","S"," ","r","e","q","u","e","s","t","s"," ","w","i","t","h"," ","s","u","s","p","i","c","i","o","u","s"," ","u","s","e","r"," ","a","g","e","n","t","s">>,
          <<"B","e","a","c","o","n","i","n","g"," ","p","a","t","t","e","r","n","s"," ","i","n"," ","n","e","t","w","o","r","k"," ","t","r","a","f","f","i","c">>>>
    ELSE IF StartsWith(t.id, <<"T","1","0","9","5">>) THEN
        <<<<"D","i","r","e","c","t"," ","u","s","e"," ","o","f"," ","T","C","P","/","U","D","P"," ","s","o","c","k","e","t","s">>,
          <<"I","C","M","P"," ","t","r","a","f","f","i","c"," ","w","i","t","h"," ","d","a","t","a">>,
          <<"R","a","w"," ","I","P"," ","p","a","c","k","e","t","s"," ","w","i","t","h"," ","u","n","u","s","u","a","l"," ","f","o","r","m","a","t","s">>,
          <<"N","o","n","-","s","t","a","n","d","a","r","d"," ","p","r","o","t","o","c","o","l"," ","u","s","a","g","e">>>>
    ELSE IF StartsWith(t.id, <<"T","1","5","7","1">>) THEN
        <<<<"C","o","m","m","o","n"," ","p","r","o","t","o","c","o","l","s"," ","o","n"," ","n","o","n","-","s","t","a","n","d","a","r","d"," ","p","o","r","t","s">>,
          <<"W","e","b"," ","t","r","a","f","f","i","c"," ","o","n"," ","p","o","r","t","s"," ","o","t","h","e","r"," ","t","h","a","n"," ","8","0","/","4","4","3">>,
          <<"D","a","t","a","b","a","s","e"," ","t","r","a","f","f","i","c"," ","o","n"," ","n","o","n","-","s","t","a","n","d","a","r","d"," ","p","o","r","t","s">>>>
    ELSE IF StartsWith(t.id, <<"T","1","5","7","2">>) THEN
        <<<<"D","N","S"," ","t","u","n","n","e","l","i","n","g"," ","p","a","t","t","e","r","n","s">>,
          <<"H","T","T","P","/","H","T","T","P","S"," ","t","u","n","n","e","l","i","n","g"," ","o","v","e","r"," ","u","n","e","x","p","e","c","t","e","d"," ","p","o","r","t","s">>,
          <<"U","n","u","s","u","a","l"," ","d","a","t","a"," ","p","a","t","t","e","r","n","s"," ","i","n"," ","s","t","a","n","d","a","r","d"," ","p","r","o","t","o","c","o","l","s">>>>
    ELSE << >>

\* Technique.get_environment_agnostic_patterns
get_environment_agnostic_patterns(t) ==
    IF StartsWith(t.id, <<"T","1","0","5","5">>) THEN
        <<<<"U","n","u","s","u","a","l"," ","m","e","m","o","r","y"," ","a","l","l","o","c","a","t","i","o","n"," ","p","a","t","t","e","r","n","s">>,
          <<"P","r","o","c","e","s","s"," ","c","r","e","a","t","i","n","g"," ","t","h","r","e","a","d","s"," ","i","n"," ","a","n","o","t","h","e","r"," ","p","r","o","c","e","s","s">>,
          <<"U","n","e","x","p","e","c","t","e","d"," ","p","r","o","c","e","s","s"," ","h","a","n","d","l","e"," ","o","p","e","r","a","t","i","o","n","s">>>>
    ELSE IF StartsWith(t.id, <<"T","1","0","5","9">>) THEN
        <<<<"E","x","e","c","u","t","i","o","n"," ","o","f"," ","s","c","r","i","p","t"," ","i","n","t","e","r","p","r","e","t","e","r","s"," ","w","i","t","h"," ","s","u","s","p","i","c","i","o","u","s"," ","a","r","g","u","m","e","n","t","s">>,
          <<"E","n","c","o","d","e","d"," ","o","r"," ","o","b","f","u","s","c","a","t","e","d"," ","c","o","m","m","a","n","d"," ","l","i","n","e"," ","a","r","g","u","m","e","n","t","s">>,
          <<"S","c","r","i","p","t"," ","e","x","e","c","u","t","i","o","n"," ","f","r","o","m"," ","u","n","u","s","u","a","l"," ","l","o","c","a","t","i","o","n","s">>>>
    ELSE IF StartsWith(t.id, <<"T","1","5","6","9">>) THEN
        <<<<"S","e","r","v","i","c","e"," ","c","r","e","a","t","i","o","n"," ","w","i","t","h"," ","u","n","u","s","u","a","l"," ","e","x","e","c","u","t","a","b","l","e"," ","p","a","t","h","s">>,
          <<"S","e","r","v","i","c","e"," ","m","o","d","i","f","i","c","a","t","i","o","n","s"," ","w","i","t","h"," ","s","u","s","p","i","c","i","o","u","s"," ","c","o","m","m","a","n","d"," ","l","i","n","e","s">>,
          <<"U","n","e","x","p","e","c","t","e","d"," ","s","e","r","v","i","c","e"," ","s","t","a","r","t","s"," ","o","r"," ","s","t","o","p","s">>>>
    ELSE IF StartsWith(t.id, <<"T","1","0","7","8">>) THEN
        <<<<"A","u","t","h","e","n","t","i","c","a","t","i","o","n"," ","f","r","o","m"," ","u","n","u","s","u","a","l"," ","l","o","c","a","t","i","o","n","s">>,
          <<"L","o","g","i","n"," ","a","t","t","e","m","p","t","s"," ","a","t"," ","u","n","u","s","u","a","l"," ","t","i","m","e","s">>,
          <<"M","u","l","t","i","p","l","e"," ","f","a","i","l","e","d"," ","l","o","g","i","n"," ","a","t","t","e","m","p","t","s"," ","f","o","l","l","o","w","e","d"," ","b","y"," ","s","u","c","c","e","s","s","f","u","l"," ","l","o","g","i","n">>,
          <<"P","r","i","v","i","l","e","g","e","d"," ","a","c","c","o","u","n","t"," ","u","s","a","g","e"," ","f","o","r"," ","r","o","u","t","i","n","e"," ","t","a","s","k","s">>>>
    ELSE << >>

detection_keywords ==
    <<<<"m","o","n","i","t","o","r">>, <<"d","e","t","e","c","t">>, <<"l","o","o","k"," ","f","o","r">>, <<"o","b","s","e","r","v","e">>, <<"i","d","e","n","t","i","f","y">>>>

\* Technique.get_detection_patterns
get_detection_patterns(t) ==
    LET parts == IF t.detection # << >> THEN Split(t.detection, "\n") ELSE << >>
        Clean(part) == Strip(Strip(part, {"-", " ", "*"}), Whitespace)
        Kept(part) == Strip(part, Whitespace) # << >> /\ Clean(part) # << >>
        keptParts == SelectSeq(parts, Kept)
        fromDetection == [i \in DOMAIN keptParts |-> Clean(keptParts[i])]
        HasKeyword(line) ==
            \E i \in DOMAIN detection_keywords :
                Contains(Lower(line), detection_keywords[i])
        lines == SelectSeq(Split(t.description, "\n"), HasKeyword)
        fromDescription == [i \in DOMAIN lines |-> Strip(lines[i], Whitespace)]
        fromSources ==
            [i \in DOMAIN t.data_sources |-> <<"D","a","t","a"," ","S","o","u","r","c","e",":"," ">> \o t.data_sources[i]]
    IN fromDetection \o fromDescription \o fromSources

(***************************************************************************)
(* converter/base_converter.py                                             *)
(***************************************************************************)
\* BaseConverter.create_signature_context
create_signature_context(tech) ==
    IF tech = None THEN Raise("ValueError")
    ELSE Return([technique |-> tech,
                 id |-> tech.id,
                 name |-> tech.name,
                 description |-> tech.description,
                 tactics |-> tech.tactics,
                 platforms |-> tech.platforms,
                 detection_patterns |-> get_detection_patterns(tech),
                 environment_agnostic_patterns |-> get_environment_agnostic_patterns(tech),
                 common_processes |-> get_common_processes(tech),
                 common_files |-> get_common_files(tech),
                 common_registry_keys |-> get_common_registry_keys(tech),
                 network_indicators |-> get_common_network_indicators(tech)])

\* BaseConverter._render_template: the named template expanded over the
\* context; the text is kept as the pair it is a function of
render_template(template_name, context) ==
    Return([template |-> template_name, context |-> context])

\* context.update(extra) for two dicts with fixed, disjoint keys
Update(context, extra) ==
    [f \in (DOMAIN context) \cup (DOMAIN extra) |->
        IF f \in DOMAIN extra THEN extra[f] ELSE context[f]]

AUTHOR == <<"M","I","T","R","E"," ","A","T","T","&","C","K"," ","S","i","g","n","a","t","u","r","e"," ","C","o","n","v","e","r","t","e","r">>

\* f"https://attack.mitre.org/techniques/{technique.id.replace('.', '/')}"
reference_url(tech) ==
    <<"h","t","t","p","s",":","/","/","a","t","t","a","c","k",".","m","i","t","r","e",".","o","r","g","/","t","e","c","h","n","i","q","u","e","s","/">> \o ReplaceChar(tech.id, ".", <<"/">>)

(***************************************************************************)
(* converter/yara_converter.py                                             *)
(***************************************************************************)
\* an entry whose index is a counter kept on the converter between calls
YaraStringCounted(prefix, idx, type, value) ==
    [id |-> prefix \o IntToStr(idx + (IF last.op = "none" THEN 0 ELSE 1)),
     type |-> type, value |-> value]

\* an entry numbered from 1
YaraStringFromOne(prefix, idx, type, value) ==
    [id |-> prefix \o IntToStr(idx + 1), type |-> type, value |-> value]

\* one entry of the strings list; idx is enumerate()'s index, from 0
YaraString(prefix, idx, type, value) ==
    [id |-> prefix \o IntToStr(idx), type |-> type, value |-> value]

\* one entry for every marker a network indicator matches
YaraNetworkEntryEveryMarker(idx, indicator) ==
    (IF Contains(indicator, <<"D","N","S">>)
     THEN <<YaraString(<<"d","n","s","_">>, idx, <<"r","e","g","e","x">>, <<"(","d","n","s","|","d","o","m","a","i","n","|","n","s","l","o","o","k","u","p",")">>)>> ELSE << >>)
    \o (IF Contains(indicator, <<"H","T","T","P">>)
        THEN <<YaraString(<<"h","t","t","p","_">>, idx, <<"r","e","g","e","x">>, <<"(","h","t","t","p","|","h","t","t","p","s","|","w","e","b",")">>)>> ELSE << >>)
    \o (IF Contains(Lower(indicator), <<"p","o","r","t">>)
        THEN <<YaraString(<<"p","o","r","t","_">>, idx, <<"r","e","g","e","x">>, <<"(","p","o","r","t","|","c","o","n","n","e","c","t","|","s","o","c","k","e","t",")">>)>> ELSE << >>)

\* the entry a network indicator adds, << >> when no marker matches
YaraNetworkEntry(idx, indicator) ==
    IF Contains(indicator, <<"D","N","S">>)
    THEN <<YaraString(<<"d","n","s","_">>, idx, <<"r","e","g","e","x">>, <<"(","d","n","s","|","d","o","m","a","i","n","|","n","s","l","o","o","k","u","p",")">>)>>
    ELSE IF Contains(indicator, <<"H","T","T","P">>)
    THEN <<YaraString(<<"h","t","t","p","_">>, idx, <<"r","e","g","e","x">>, <<"(","h","t","t","p","|","h","t","t","p","s","|","w","e","b",")">>)>>
    ELSE IF Contains(Lower(indicator), <<"p","o","r","t">>)
    THEN <<YaraString(<<"p","o","r","t","_">>, idx, <<"r","e","g","e","x">>, <<"(","p","o","r","t","|","c","o","n","n","e","c","t","|","s","o","c","k","e","t",")">>)>>
    ELSE << >>

\* the entry an environment-agnostic pattern adds, << >> when no marker matches
YaraAgnosticEntry(idx, pattern) ==
    IF Contains(Lower(pattern), <<"m","e","m","o","r","y"," ","a","l","l","o","c","a","t","i","o","n">>)
    THEN <<YaraString(<<"m","e","m","o","r","y","_">>, idx, <<"r","e","g","e","x">>, <<"(","V","i","r","t","u","a","l","A","l","l","o","c","|","m","m","a","p","|","m","a","l","l","o","c",")">>)>>
    ELSE IF Contains(Lower(pattern), <<"s","c","r","i","p","t">>)
    THEN <<YaraString(<<"s","c","r","i","p","t","_">>, idx, <<"r","e","g","e","x">>, <<"(","p","o","w","e","r","s","h","e","l","l","|","c","m","d","\\",".","e","x","e","|","b","a","s","h","|","p","y","t","h","o","n","|","p","e","r","l","|","s","h",")">>)>>
    ELSE IF Contains(Lower(pattern), <<"s","e","r","v","i","c","e">>)
    THEN <<YaraString(<<"s","e","r","v","i","c","e","_">>, idx, <<"r","e","g","e","x">>, <<"(","s","e","r","v","i","c","e","|","d","a","e","m","o","n","|","s","y","s","t","e","m","c","t","l","|","s","y","s","t","e","m","d",")">>)>>
    ELSE IF Contains(Lower(pattern), <<"a","c","c","o","u","n","t">>) \/ Contains(Lower(pattern), <<"l","o","g","i","n">>)
    THEN <<YaraString(<<"a","c","c","o","u","n","t","_">>, idx, <<"r","e","g","e","x">>, <<"(","l","o","g","i","n","|","a","c","c","o","u","n","t","|","u","s","e","r","|","c","r","e","d","e","n","t","i","a","l",")">>)>>
    ELSE << >>

RECURSIVE Flatten(_)
\* the concatenation of a list of lists
Flatten(xss) == IF xss = << >> THEN << >> ELSE Head(xss) \o Flatten(Tail(xss))

\* YaraConverter._generate_strings
YaraGenerateStrings(tech) ==
    LET files == get_common_files(tech)
        processes == get_common_processes(tech)
        registry == get_common_registry_keys(tech)
        network == get_common_network_indicators(tech)
        agnostic == get_environment_agnostic_patterns(tech)
    IN [i \in DOMAIN files |-> YaraString(<<"f","i","l","e","_">>, i - 1, <<"t","e","x","t">>, files[i])]
       \o [i \in DOMAIN processes |-> YaraString(<<"p","r","o","c","e","s","s","_">>, i - 1, <<"t","e","x","t">>, processes[i])]
       \o [i \in DOMAIN registry |-> YaraString(<<"r","e","g","i","s","t","r","y","_">>, i - 1, <<"t","e","x","t">>, registry[i])]
       \o Flatten([i \in DOMAIN network |-> YaraNetworkEntry(i - 1, network[i])])
       \o Flatten([i \in DOMAIN agnostic |-> YaraAgnosticEntry(i - 1, agnostic[i])])

\* a group condition that lists even a single id under "any of"
YaraGroupConditionAnyOf(ids) ==
    IF ids = << >> THEN << >>
    ELSE <<<<"a","n","y"," ","o","f"," ","(">> \o Join(<<","," ">>, [i \in DOMAIN ids |-> <<"$">> \o ids[i]]) \o <<")">>>>

\* the condition of one group of string ids, << >> for an empty group
YaraGroupCondition(ids) ==
    IF ids = << >> THEN << >>
    ELSE IF Len(ids) > 1
    THEN <<<<"a","n","y"," ","o","f"," ","(">> \o Join(<<","," ">>, [i \in DOMAIN ids |-> <<"$">> \o ids[i]]) \o <<")">>>>
    ELSE <<<<"$">> \o ids[1]>>

\* conditions over the file, process, registry and network ids only
YaraGenerateConditionsNoOther(tech) ==
    LET strings == YaraGenerateStrings(tech)
        ids == [i \in DOMAIN strings |-> strings[i].id]
        IsFile(x) == StartsWith(x, <<"f","i","l","e","_">>)
        IsProcess(x) == StartsWith(x, <<"p","r","o","c","e","s","s","_">>)
        IsRegistry(x) == StartsWith(x, <<"r","e","g","i","s","t","r","y","_">>)
        IsNetwork(x) == \E p \in {<<"d","n","s","_">>, <<"h","t","t","p","_">>, <<"p","o","r","t","_">>} : StartsWith(x, p)
        conditions ==
            YaraGroupCondition(SelectSeq(ids, IsFile))
            \o YaraGroupCondition(SelectSeq(ids, IsProcess))
            \o YaraGroupCondition(SelectSeq(ids, IsRegistry))
            \o YaraGroupCondition(SelectSeq(ids, IsNetwork))
    IN IF conditions = << >> THEN <<<<"f","i","l","e","s","i","z","e"," ","<"," ","5","M","B">>>> ELSE conditions

\* YaraConverter._generate_conditions
YaraGenerateConditions(tech) ==
    LET strings == YaraGenerateStrings(tech)
        ids == [i \in DOMAIN strings |-> strings[i].id]
        IsFile(x) == StartsWith(x, <<"f","i","l","e","_">>)
        IsProcess(x) == ~IsFile(x) /\ StartsWith(x, <<"p","r","o","c","e","s","s","_">>)
        IsRegistry(x) == ~IsFile(x) /\ ~IsProcess(x) /\ StartsWith(x, <<"r","e","g","i","s","t","r","y","_">>)
        IsNetwork(x) ==
            /\ ~IsFile(x) /\ ~IsProcess(x) /\ ~IsRegistry(x)
            /\ \E p \in {<<"d","n","s","_">>, <<"h","t","t","p","_">>, <<"p","o","r","t","_">>} : StartsWith(x, p)
        IsOther(x) == ~IsFile(x) /\ ~IsProcess(x) /\ ~IsRegistry(x) /\ ~IsNetwork(x)
        conditions ==
            YaraGroupCondition(SelectSeq(ids, IsFile))
            \o YaraGroupCondition(SelectSeq(ids, IsProcess))
            \o YaraGroupCondition(SelectSeq(ids, IsRegistry))
            \o YaraGroupCondition(SelectSeq(ids, IsNetwork))
            \o YaraGroupCondition(SelectSeq(ids, IsOther))
    IN IF conditions = << >> THEN <<<<"f","i","l","e","s","i","z","e"," ","<"," ","5","M","B">>>> ELSE conditions

\* the dict YaraConverter.convert passes to context.update
YaraContextUpdate(tech) ==
    Return([rule_name |-> <<"M","I","T","R","E","_","A","T","T","_","C","K","_">> \o ReplaceChar(tech.id, ".", <<"_">>),
            strings |-> YaraGenerateStrings(tech),
            conditions |-> YaraGenerateConditions(tech),
            author |-> AUTHOR,
            reference |-> reference_url(tech) \o <<"/">>])

\* the two statements every convert() ends with: context.update(extra) and
\* the return of _render_template; an exception raised while context or
\* extra was built has left convert() before
UpdateAndRender(context, extra, template_name) ==
    IF Raised(context) THEN context
    ELSE IF Raised(extra) THEN extra
    ELSE render_template(template_name, Update(context.value, extra.value))

\* YaraConverter.convert
YaraConvert(tech) ==
    UpdateAndRender(create_signature_context(tech), YaraContextUpdate(tech),
                    <<"y","a","r","a","_","t","e","m","p","l","a","t","e",".","j","2">>)

(***************************************************************************)
(* converter/sigma_converter.py                                            *)
(***************************************************************************)
\* d.update({key: value}) on a dict kept as the list of its [k, v] items
DictUpdate(d, key, value) ==
    IF \E i \in DOMAIN d : d[i].k = key
    THEN [i \in DOMAIN d |-> IF d[i].k = key THEN [k |-> key, v |-> value] ELSE d[i]]
    ELSE Append(d, [k |-> key, v |-> value])

\* whether some pattern, lowercased, contains one of the cues
AnyLowerContains(patterns, cues) ==
    \E i \in DOMAIN patterns : \E c \in cues : Contains(Lower(patterns[i]), c)

\* lines 69-132 of _generate_detection, for a technique object that has the
\* attributes common_processes, common_files and common_registry_keys
SigmaDetectionBody(tech) ==
    LET agnostic == get_environment_agnostic_patterns(tech)
        s1 == IF tech.common_processes # << >>
              THEN DictUpdate(<< >>, <<"I","m","a","g","e","|","e","n","d","s","w","i","t","h">>, get_common_processes(tech))
              ELSE << >>
        s2 == IF tech.common_files # << >>
              THEN DictUpdate(s1, <<"T","a","r","g","e","t","F","i","l","e","n","a","m","e","|","e","n","d","s","w","i","t","h">>, get_common_files(tech))
              ELSE s1
        s3 == IF tech.common_registry_keys # << >>
              THEN DictUpdate(s2, <<"T","a","r","g","e","t","O","b","j","e","c","t","|","c","o","n","t","a","i","n","s">>, get_common_registry_keys(tech))
              ELSE s2
        IsCommandLine(p) ==
            Contains(Lower(p), <<"c","o","m","m","a","n","d">>) \/ Contains(Lower(p), <<"a","r","g","u","m","e","n","t">>)
        s4 == IF agnostic # << >> /\ AnyLowerContains(agnostic, {<<"c","o","m","m","a","n","d">>})
              THEN DictUpdate(s3, <<"C","o","m","m","a","n","d","L","i","n","e","|","c","o","n","t","a","i","n","s">>, SelectSeq(agnostic, IsCommandLine))
              ELSE s3
        s5 == IF agnostic # << >> /\ AnyLowerContains(agnostic, {<<"n","e","t","w","o","r","k">>, <<"p","o","r","t">>})
              THEN DictUpdate(s4, <<"D","e","s","t","i","n","a","t","i","o","n","P","o","r","t">>, <<<<"!","8","0">>, <<"!","4","4","3">>, <<"!","5","3">>, <<"!","2","2">>, <<"!","3","3","8","9">>>>)
              ELSE s4
        auth == agnostic # << >> /\ AnyLowerContains(agnostic, {<<"l","o","g","i","n">>, <<"a","c","c","o","u","n","t">>})
        s6 == IF auth
              THEN DictUpdate(s5, <<"E","v","e","n","t","I","D">>, <<<<"4","6","2","4">>, <<"4","6","2","5">>, <<"4","6","4","8">>, <<"4","7","6","8">>, <<"4","7","6","9">>, <<"4","7","7","6">>>>)
              ELSE s5
        IsSignificant(k) == Len(k) > 3
        significant_keywords == SelectSeq(FindWords(Lower(tech.name), << >>), IsSignificant)
        selection ==
            IF s6 = << >> /\ significant_keywords # << >>
            THEN <<[k |-> <<"E","v","e","n","t","T","y","p","e","|","c","o","n","t","a","i","n","s">>, v |-> significant_keywords]>>
            ELSE s6
    IN IF auth
       THEN [selection |-> selection,
             condition |-> <<"s","e","l","e","c","t","i","o","n"," ","o","r"," ","s","e","l","e","c","t","i","o","n","_","a","l","t">>,
             selection_alt |-> <<[k |-> <<"E","v","e","n","t","T","y","p","e">>, v |-> <<<<"a","u","t","h","e","n","t","i","c","a","t","i","o","n">>, <<"l","o","g","i","n">>, <<"a","u","t","h">>>>]>>]
       ELSE [selection |-> selection, condition |-> <<"s","e","l","e","c","t","i","o","n">>]

\* SigmaConverter._generate_detection
SigmaGenerateDetection(tech) ==
    IF ~HasAttr(tech, "common_processes") THEN Raise("AttributeError")
    ELSE IF ~HasAttr(tech, "common_files") THEN Raise("AttributeError")
    ELSE IF ~HasAttr(tech, "common_registry_keys") THEN Raise("AttributeError")
    ELSE Return(SigmaDetectionBody(tech))

\* a log source whose category is the one of the id-prefix table on every
\* product
SigmaDetermineLogsourceNoRemap(tech) ==
    [product |-> IF PlatformIn(tech.platforms, {<<"w","i","n","d","o","w","s">>}) THEN <<"w","i","n","d","o","w","s">>
                 ELSE IF PlatformIn(tech.platforms, {<<"l","i","n","u","x">>}) THEN <<"l","i","n","u","x">>
                 ELSE IF PlatformIn(tech.platforms, {<<"m","a","c","o","s">>}) THEN <<"m","a","c","o","s">>
                 ELSE <<"a","n","y">>,
     category |-> IF StartsWith(tech.id, <<"T","1","5","4","7">>) THEN <<"r","e","g","i","s","t","r","y","_","e","v","e","n","t">>
                  ELSE IF StartsWith(tech.id, <<"T","1","0","7","8">>) THEN <<"a","u","t","h","e","n","t","i","c","a","t","i","o","n">>
                  ELSE IF StartsWith(tech.id, <<"T","1","0","7","1">>) THEN <<"n","e","t","w","o","r","k","_","c","o","n","n","e","c","t","i","o","n">>
                  ELSE <<"p","r","o","c","e","s","s","_","c","r","e","a","t","i","o","n">>]

\* SigmaConverter._determine_logsource
SigmaDetermineLogsource(tech) ==
    LET product ==
            IF PlatformIn(tech.platforms, {<<"w","i","n","d","o","w","s">>}) THEN <<"w","i","n","d","o","w","s">>
            ELSE IF PlatformIn(tech.platforms, {<<"l","i","n","u","x">>}) THEN <<"l","i","n","u","x">>
            ELSE IF PlatformIn(tech.platforms, {<<"m","a","c","o","s">>}) THEN <<"m","a","c","o","s">>
            ELSE <<"a","n","y">>
        category ==
            IF StartsWith(tech.id, <<"T","1","0","5","5">>) THEN <<"p","r","o","c","e","s","s","_","c","r","e","a","t","i","o","n">>
            ELSE IF StartsWith(tech.id, <<"T","1","0","5","9">>) THEN <<"p","r","o","c","e","s","s","_","c","r","e","a","t","i","o","n">>
            ELSE IF StartsWith(tech.id, <<"T","1","5","4","7">>) THEN <<"r","e","g","i","s","t","r","y","_","e","v","e","n","t">>
            ELSE IF StartsWith(tech.id, <<"T","1","0","7","8">>) THEN <<"a","u","t","h","e","n","t","i","c","a","t","i","o","n">>
            ELSE IF StartsWith(tech.id, <<"T","1","0","7","1">>) THEN <<"n","e","t","w","o","r","k","_","c","o","n","n","e","c","t","i","o","n">>
            ELSE <<"p","r","o","c","e","s","s","_","c","r","e","a","t","i","o","n">>
    IN [product |-> product,
        category |-> IF category = <<"r","e","g","i","s","t","r","y","_","e","v","e","n","t">> /\ product # <<"w","i","n","d","o","w","s">>
                     THEN <<"f","i","l","e","_","e","v","e","n","t">> ELSE category]

\* SigmaConverter._generate_falsepositives
SigmaGenerateFalsepositives(tech) ==
    <<<<"L","e","g","i","t","i","m","a","t","e"," ","a","d","m","i","n","i","s","t","r","a","t","i","v","e"," ","a","c","t","i","v","i","t","y">>>> \o
    (IF StartsWith(tech.id, <<"T","1","0","5","9">>)
     THEN <<<<"L","e","g","i","t","i","m","a","t","e"," ","s","c","r","i","p","t","i","n","g"," ","a","c","t","i","v","i","t","y">>, <<"S","y","s","t","e","m"," ","a","d","m","i","n","i","s","t","r","a","t","i","o","n"," ","s","c","r","i","p","t","s">>>>
     ELSE IF StartsWith(tech.id, <<"T","1","0","5","5">>)
     THEN <<<<"L","e","g","i","t","i","m","a","t","e"," ","s","o","f","t","w","a","r","e"," ","w","i","t","h"," ","D","L","L"," ","i","n","j","e","c","t","i","o","n">>, <<"A","n","t","i","v","i","r","u","s"," ","s","o","f","t","w","a","r","e">>>>
     ELSE IF StartsWith(tech.id, <<"T","1","0","7","8">>)
     THEN <<<<"L","e","g","i","t","i","m","a","t","e"," ","u","s","e","r"," ","a","c","t","i","v","i","t","y">>, <<"A","u","t","h","o","r","i","z","e","d"," ","a","d","m","i","n","i","s","t","r","a","t","i","v","e"," ","a","c","c","e","s","s">>>>
     ELSE IF StartsWith(tech.id, <<"T","1","0","7","1">>)
     THEN <<<<"L","e","g","i","t","i","m","a","t","e"," ","n","e","t","w","o","r","k"," ","t","r","a","f","f","i","c">>, <<"R","e","g","u","l","a","r"," ","a","p","p","l","i","c","a","t","i","o","n"," ","c","o","m","m","u","n","i","c","a","t","i","o","n">>>>
     ELSE << >>)

\* SigmaConverter._determine_level
SigmaDetermineLevel(tech) ==
    IF StartsWith(tech.id, <<"T","1","0","5","5">>) THEN <<"h","i","g","h">>
    ELSE IF StartsWith(tech.id, <<"T","1","0","5","9">>) THEN <<"m","e","d","i","u","m">>
    ELSE IF StartsWith(tech.id, <<"T","1","0","7","8">>) THEN <<"m","e","d","i","u","m">>
    ELSE IF StartsWith(tech.id, <<"T","1","0","7","1">>) THEN <<"l","o","w">>
    ELSE <<"m","e","d","i","u","m">>

\* SigmaConverter._generate_tags
SigmaGenerateTags(tech) ==
    <<<<"a","t","t","a","c","k",".">> \o tech.id>>
    \o [i \in DOMAIN tech.tactics |-> <<"a","t","t","a","c","k",".","t","a","c","t","i","c",".">> \o tech.tactics[i]]
    \o [i \in DOMAIN tech.platforms |-> <<"p","l","a","t","f","o","r","m",".">> \o Lower(tech.platforms[i])]
    \o <<<<"m","i","t","r","e",".","e","n","v","i","r","o","n","m","e","n","t",".","a","g","n","o","s","t","i","c">>>>

\* the dict SigmaConverter.convert passes to context.update, detection being
\* the outcome of _generate_detection; the literal is evaluated in source
\* order, so an exception in _generate_detection leaves before the later
\* entries are built
SigmaContextWith(tech, detection) ==
    IF Raised(detection) THEN detection
    ELSE Return([rule_id |-> <<"m","i","t","r","e","_","a","t","t","a","c","k","_">> \o Lower(ReplaceChar(tech.id, ".", <<"_">>)),
                 title |-> <<"M","I","T","R","E"," ","A","T","T","&","C","K",":"," ">> \o tech.name \o <<" ","-"," ">> \o tech.id,
                 detection |-> detection.value,
                 logsource |-> SigmaDetermineLogsource(tech),
                 falsepositives |-> SigmaGenerateFalsepositives(tech),
                 level |-> SigmaDetermineLevel(tech),
                 status |-> <<"e","x","p","e","r","i","m","e","n","t","a","l">>,
                 author |-> AUTHOR,
                 references |-> <<reference_url(tech)>>,
                 tags |-> SigmaGenerateTags(tech)])

SigmaContextUpdate(tech) == SigmaContextWith(tech, SigmaGenerateDetection(tech))

\* SigmaConverter.convert
SigmaConvert(tech) ==
    UpdateAndRender(create_signature_context(tech), SigmaContextUpdate(tech),
                    <<"s","i","g","m","a","_","t","e","m","p","l","a","t","e",".","j","2">>)

(***************************************************************************)
(* converter/kql_converter.py                                              *)
(***************************************************************************)
DQ == <<"\"">>

\* KqlConverter._determine_tables
KqlDetermineTables(tech) ==
    LET win ==
            IF ~PlatformIn(tech.platforms, {<<"w","i","n","d","o","w","s">>}) THEN << >>
            ELSE IF StartsWith(tech.id, <<"T","1","0","5","5">>) THEN <<<<"S","e","c","u","r","i","t","y","E","v","e","n","t">>, <<"W","i","n","d","o","w","s","E","v","e","n","t">>, <<"S","e","c","u","r","i","t","y","A","l","e","r","t">>>>
            ELSE IF StartsWith(tech.id, <<"T","1","0","5","9">>) THEN <<<<"S","e","c","u","r","i","t","y","E","v","e","n","t">>, <<"W","i","n","d","o","w","s","E","v","e","n","t">>, <<"P","r","o","c","e","s","s","E","v","e","n","t","s">>>>
            ELSE IF StartsWith(tech.id, <<"T","1","5","4","7">>) THEN <<<<"S","e","c","u","r","i","t","y","E","v","e","n","t">>, <<"W","i","n","d","o","w","s","E","v","e","n","t">>, <<"R","e","g","i","s","t","r","y","E","v","e","n","t","s">>>>
            ELSE IF StartsWith(tech.id, <<"T","1","0","7","8">>) THEN <<<<"S","e","c","u","r","i","t","y","E","v","e","n","t">>, <<"S","i","g","n","i","n","L","o","g","s">>, <<"A","u","d","i","t","L","o","g","s">>>>
            ELSE IF StartsWith(tech.id, <<"T","1","0","7","1">>) THEN <<<<"N","e","t","w","o","r","k","E","v","e","n","t","s">>, <<"D","n","s","E","v","e","n","t","s">>, <<"C","o","m","m","o","n","S","e","c","u","r","i","t","y","L","o","g">>>>
            ELSE << >>
        linux ==
            IF ~PlatformIn(tech.platforms, {<<"l","i","n","u","x">>}) THEN << >>
            ELSE IF StartsWith(tech.id, <<"T","1","0","5","9">>) THEN <<<<"S","y","s","l","o","g">>, <<"L","i","n","u","x","A","u","d","i","t","L","o","g","s">>>>
            ELSE IF StartsWith(tech.id, <<"T","1","5","4","7">>) THEN <<<<"S","y","s","l","o","g">>, <<"L","i","n","u","x","A","u","d","i","t","L","o","g","s">>>>
            ELSE IF StartsWith(tech.id, <<"T","1","0","7","8">>) THEN <<<<"S","y","s","l","o","g">>, <<"L","i","n","u","x","A","u","d","i","t","L","o","g","s">>>>
            ELSE IF StartsWith(tech.id, <<"T","1","0","7","1">>) THEN <<<<"N","e","t","w","o","r","k","E","v","e","n","t","s">>, <<"D","n","s","E","v","e","n","t","s">>>>
            ELSE << >>
        macos ==
            IF ~PlatformIn(tech.platforms, {<<"m","a","c","o","s">>}) THEN << >>
            ELSE IF StartsWith(tech.id, <<"T","1","0","5","9">>) THEN <<<<"M","a","c","O","S","A","u","d","i","t","L","o","g","s">>, <<"S","y","s","l","o","g">>>>
            ELSE IF StartsWith(tech.id, <<"T","1","5","4","7">>) THEN <<<<"M","a","c","O","S","A","u","d","i","t","L","o","g","s">>, <<"S","y","s","l","o","g">>>>
            ELSE IF StartsWith(tech.id, <<"T","1","0","7","8">>) THEN <<<<"M","a","c","O","S","A","u","d","i","t","L","o","g","s">>, <<"S","y","s","l","o","g">>>>
            ELSE << >>
    IN Dedup(win \o linux \o macos \o <<<<"S","e","c","u","r","i","t","y","A","l","e","r","t">>, <<"S","e","c","u","r","i","t","y","I","n","c","i","d","e","n","t">>>>)

\* KqlConverter._escape_kql_string
escape_kql_string(input_str) == ReplaceChar(input_str, "\"", <<"\\", "\"">>)

common_words ==
    <<<<"t","h","e">>, <<"a","n","d">>, <<"a">>, <<"t","o">>, <<"o","f">>, <<"i","n">>, <<"f","o","r">>, <<"i","s">>, <<"o","n">>, <<"t","h","a","t">>, <<"b","y">>>>

\* KqlConverter._extract_keywords_from_description
extract_keywords_from_description(description) ==
    LET IsKeyword(w) == w \notin Range(common_words) /\ Len(w) > 3
    IN Take(Dedup(SelectSeq(FindWords(Lower(description), << >>), IsKeyword)), 10)

\* " or ".join([f'{field} contains "{x}"' for x in xs])
ContainsClause(field, xs) ==
    Join(<<" ","o","r"," ">>, [i \in DOMAIN xs |-> field \o <<" ","c","o","n","t","a","i","n","s"," ">> \o DQ \o xs[i] \o DQ])

QueryPart(table, where) == [table |-> table, where |-> where]

\* lines 115-166 of _generate_query_parts: the parts for processes, files,
\* registry keys and network indicators
KqlIndicatorParts(tech) ==
    LET processes == get_common_processes(tech)
        files == get_common_files(tech)
        registry_keys == get_common_registry_keys(tech)
        network_indicators == get_common_network_indicators(tech)
        HasMarker(m) ==
            \E i \in DOMAIN network_indicators : Contains(network_indicators[i], m)
        network_clause ==
            Join(<<" ","o","r"," ">>,
                 [i \in DOMAIN network_indicators |->
                     <<"N","e","t","w","o","r","k","P","r","o","t","o","c","o","l"," ","c","o","n","t","a","i","n","s"," ">> \o DQ \o network_indicators[i] \o DQ
                     \o <<" ","o","r"," ","R","e","q","u","e","s","t","U","R","L"," ","c","o","n","t","a","i","n","s"," ">> \o DQ \o network_indicators[i] \o DQ])
    IN (IF processes # << >>
        THEN <<QueryPart(<<"P","r","o","c","e","s","s","E","v","e","n","t","s">>, <<"(">> \o ContainsClause(<<"P","r","o","c","e","s","s">>, processes) \o <<")">>)>>
        ELSE << >>)
       \o (IF files # << >>
           THEN <<QueryPart(<<"F","i","l","e","E","v","e","n","t","s">>, <<"(">> \o ContainsClause(<<"T","a","r","g","e","t","F","i","l","e","n","a","m","e">>, files) \o <<")">>)>>
           ELSE << >>)
       \o (IF registry_keys # << >>
           THEN <<QueryPart(<<"R","e","g","i","s","t","r","y","E","v","e","n","t","s">>, <<"(">> \o ContainsClause(<<"R","e","g","i","s","t","r","y","K","e","y">>, registry_keys) \o <<")">>)>>
           ELSE << >>)
       \o (IF network_indicators = << >> THEN << >>
           ELSE (IF HasMarker(<<"D","N","S">>)
                 THEN <<QueryPart(<<"D","n","s","E","v","e","n","t","s">>, <<"i","s","n","o","t","e","m","p","t","y","(","Q","u","e","r","y","N","a","m","e",")">>)>>
                 ELSE << >>)
                \o (IF HasMarker(<<"H","T","T","P">>)
                    THEN <<QueryPart(<<"N","e","t","w","o","r","k","E","v","e","n","t","s">>,
                               <<"R","e","m","o","t","e","P","o","r","t"," ","i","n"," ","(","8","0",","," ","4","4","3",","," ","8","0","8","0",")"," ","o","r"," ","N","e","t","w","o","r","k","P","r","o","t","o","c","o","l"," ","c","o","n","t","a","i","n","s"," ">>
                               \o DQ \o <<"H","T","T","P">> \o DQ)>>
                    ELSE << >>)
                \o <<QueryPart(<<"N","e","t","w","o","r","k","E","v","e","n","t","s">>, <<"(">> \o network_clause \o <<")">>)>>)

\* lines 168-196 of _generate_query_parts, for a technique object that has
\* the methods get_common_commands and get_common_services (their results
\* are read as fields of tech); parts are the parts built so far
KqlCommandServiceParts(tech, parts) ==
    LET commands == tech.get_common_commands
        services == tech.get_common_services
        escaped == [i \in DOMAIN commands |-> escape_kql_string(commands[i])]
        keywords == extract_keywords_from_description(tech.description)
        all ==
            parts
            \o (IF commands # << >>
                THEN <<QueryPart(<<"P","r","o","c","e","s","s","E","v","e","n","t","s">>, <<"(">> \o ContainsClause(<<"C","o","m","m","a","n","d","L","i","n","e">>, escaped) \o <<")">>)>>
                ELSE << >>)
            \o (IF services # << >>
                THEN <<QueryPart(<<"W","i","n","d","o","w","s","E","v","e","n","t">>,
                           <<"E","v","e","n","t","I","D"," ","=","="," ","7","0","4","5"," ","a","n","d"," ","(">> \o ContainsClause(<<"S","e","r","v","i","c","e","N","a","m","e">>, services) \o <<")">>)>>
                ELSE << >>)
    IN IF all = << >> /\ tech.description # << >> /\ keywords # << >>
       THEN <<QueryPart(<<"S","e","c","u","r","i","t","y","E","v","e","n","t">>,
                  <<"(">> \o Join(<<" ","o","r"," ">>, [i \in DOMAIN keywords |->
                                  <<"(","E","v","e","n","t"," ","c","o","n","t","a","i","n","s"," ">> \o DQ \o keywords[i] \o DQ \o <<")">>])
                  \o <<")">>)>>
       ELSE all

\* KqlConverter._generate_query_parts
KqlGenerateQueryParts(tech) ==
    IF ~HasAttr(tech, "get_common_commands") THEN Raise("AttributeError")
    ELSE IF ~HasAttr(tech, "get_common_services") THEN Raise("AttributeError")
    ELSE Return(KqlCommandServiceParts(tech, KqlIndicatorParts(tech)))

\* KqlConverter.create_signature_context, which overrides the base method
KqlCreateSignatureContext(tech) ==
    IF ~HasAttr(tech, "id") THEN Raise("AttributeError")
    ELSE IF ~HasAttr(tech, "parent_technique_id") THEN Raise("AttributeError")
    ELSE Return([technique_id |-> tech.id,
                 technique_name |-> tech.name,
                 description |-> tech.description,
                 platforms |-> tech.platforms,
                 data_sources |-> tech.data_sources,
                 is_subtechnique |-> tech.is_subtechnique,
                 parent_technique |-> IF tech.parent_technique_id # << >>
                                      THEN tech.parent_technique_id ELSE None])

\* KqlConverter.generate_query_name; `and` reads parent_technique_id only
\* when is_subtechnique is true
KqlGenerateQueryName(tech) ==
    IF ~tech.is_subtechnique
    THEN Return(<<"M","I","T","R","E"," ","A","T","T","&","C","K",":"," ">> \o tech.name \o <<" ","(">> \o tech.id \o <<")">>)
    ELSE IF ~HasAttr(tech, "parent_technique_id") THEN Raise("AttributeError")
    ELSE IF tech.parent_technique_id = << >>
    THEN Return(<<"M","I","T","R","E"," ","A","T","T","&","C","K",":"," ">> \o tech.name \o <<" ","(">> \o tech.id \o <<")">>)
    ELSE Return(<<"M","I","T","R","E"," ","A","T","T","&","C","K",":"," ">> \o tech.name \o <<" ","-"," ","S","u","b","t","e","c","h","n","i","q","u","e"," ","o","f"," ">>
                \o tech.parent_technique_id)

\* the table-queries of build_full_query: one per distinct table, in
\* first-seen order, OR-joining that table's conditions
KqlTableQueries(query_parts) ==
    LET tables == Dedup([i \in DOMAIN query_parts |-> query_parts[i].table])
        Conditions(table) ==
            LET Of(p) == p.table = table
                mine == SelectSeq(query_parts, Of)
            IN [i \in DOMAIN mine |-> <<"(">> \o mine[i].where \o <<")">>]
    IN [i \in DOMAIN tables |->
           tables[i] \o <<" ","|"," ","w","h","e","r","e"," ">> \o Join(<<" ","o","r"," ">>, Conditions(tables[i]))]

\* KqlConverter.build_full_query
KqlBuildFullQuery(tech) ==
    LET parts == KqlGenerateQueryParts(tech)
        queries == KqlTableQueries(parts.value)
        description_line ==
            IF Len(tech.description) > 150
            THEN <<"/","/"," ","D","e","s","c","r","i","p","t","i","o","n",":"," ">> \o SubSeq(tech.description, 1, 150) \o <<".",".",".">>
            ELSE <<"/","/"," ","D","e","s","c","r","i","p","t","i","o","n",":"," ">> \o tech.description
    IN IF Raised(parts) THEN parts
       ELSE IF parts.value = << >>
       THEN Return(<<"/","/"," ","N","o"," ","s","p","e","c","i","f","i","c"," ","i","n","d","i","c","a","t","o","r","s"," ","a","v","a","i","l","a","b","l","e"," ","f","o","r"," ">> \o tech.id \o <<":"," ">>
                   \o tech.name \o <<"\n">>
                   \o <<"/","/"," ","C","o","n","s","i","d","e","r"," ","m","a","n","u","a","l"," ","r","e","v","i","e","w"," ","o","f"," ","t","h","e"," ","t","e","c","h","n","i","q","u","e"," ","d","e","s","c","r","i","p","t","i","o","n"," ","a","n","d"," ","c","r","e","a","t","e"," ","c","u","s","t","o","m"," ","q","u","e","r","i","e","s",".">>)
       ELSE Return(Join(<<"\n">>,
                <<<<"/","/"," ","M","I","T","R","E"," ","A","T","T","&","C","K"," ","T","e","c","h","n","i","q","u","e",":"," ">> \o tech.id \o <<" ","-"," ">> \o tech.name,
                  description_line,
                  <<"/","/"," ","P","l","a","t","f","o","r","m","s",":"," ">> \o Join(<<","," ">>, tech.platforms),
                  <<"/","/"," ","R","e","f","e","r","e","n","c","e",":"," ">> \o reference_url(tech) \o <<"/">>,
                  << >>,
                  IF Len(queries) > 1 THEN Join(<<" ","|"," ","u","n","i","o","n"," ">>, queries) ELSE queries[1],
                  <<"|"," ","p","r","o","j","e","c","t"," ","T","i","m","e","G","e","n","e","r","a","t","e","d",","," ","S","o","u","r","c","e","=","S","o","u","r","c","e","S","y","s","t","e","m",","," ","C","o","m","p","u","t","e","r",","," ","E","v","e","n","t","I","D",","," ","A","c","t","i","v","i","t","y",","," ","C","o","m","m","a","n","d","L","i","n","e",","," ","P","a","r","e","n","t","P","r","o","c","e","s","s","N","a","m","e",","," ","P","r","o","c","e","s","s","N","a","m","e",","," ","F","i","l","e","N","a","m","e",","," ","U","s","e","r","N","a","m","e">>,
                  <<"|"," ","e","x","t","e","n","d"," ","T","e","c","h","n","i","q","u","e"," ","="," ","'","M","I","T","R","E"," ","A","T","T","&","C","K"," ">> \o tech.id \o <<":"," ">> \o tech.name \o <<"'">>,
                  <<"|"," ","s","o","r","t"," ","b","y"," ","T","i","m","e","G","e","n","e","r","a","t","e","d"," ","d","e","s","c">>>>))

\* the dict KqlConverter.convert passes to context.update, query_parts being
\* the outcome of _generate_query_parts
KqlContextWith(tech, query_parts) ==
    IF Raised(query_parts) THEN query_parts
    ELSE Return([query_id |-> <<"M","I","T","R","E","_","A","T","T","_","C","K","_">> \o ReplaceChar(tech.id, ".", <<"_">>),
                 tables |-> KqlDetermineTables(tech),
                 query_parts |-> query_parts.value,
                 author |-> AUTHOR,
                 reference |-> reference_url(tech) \o <<"/">>])

KqlContextUpdate(tech) == KqlContextWith(tech, KqlGenerateQueryParts(tech))

\* KqlConverter.convert
KqlConvert(tech) ==
    UpdateAndRender(KqlCreateSignatureContext(tech), KqlContextUpdate(tech),
                    <<"k","q","l","_","t","e","m","p","l","a","t","e",".","j","2">>)

(***************************************************************************)
(* Workers: convert() calls in flight on shared converter instances         *)
(***************************************************************************)
Workers == {"w1", "w2"}

\* the three converter instances the workers share
Converters == {"yara", "sigma", "kql"}

TechniqueA ==
    Technique(<<"T","1","0","5","5",".","0","0","1">>, <<"D","L","L">>, <<"A","d","v","e","r","s","a","r","i","e","s"," ","m","a","y"," ","i","n","j","e","c","t"," ","D","L","L","s",".">>, <<<<"d","e","f","e","n","s","e","-","e","v","a","s","i","o","n">>>>,
              <<<<"W","i","n","d","o","w","s">>>>, <<<<"P","r","o","c","e","s","s"," ","M","o","n","i","t","o","r","i","n","g">>>>, <<"M","o","n","i","t","o","r"," ","A","P","I"," ","c","a","l","l","s">>,
              << >>, TRUE)

TechniqueB ==
    Technique(<<"T","1","0","7","1">>, <<"W","e","b">>, << >>, <<<<"c","o","m","m","a","n","d","-","a","n","d","-","c","o","n","t","r","o","l">>>>, <<<<"L","i","n","u","x">>>>,
              << >>, << >>, << >>, FALSE)

\* what the workers are asked to convert
WorkerArgs == {None, TechniqueA, TechniqueB}

\* self.create_signature_context(technique), first statement of convert()
CreateContext(c, tech) ==
    CASE c = "yara" -> create_signature_context(tech)
      [] c = "sigma" -> create_signature_context(tech)
      [] c = "kql" -> KqlCreateSignatureContext(tech)

\* the dict convert() builds for context.update
ContextUpdate(c, tech) ==
    CASE c = "yara" -> YaraContextUpdate(tech)
      [] c = "sigma" -> SigmaContextUpdate(tech)
      [] c = "kql" -> KqlContextUpdate(tech)

\* the template name convert() passes to _render_template
TemplateName(c) ==
    CASE c = "yara" -> <<"y","a","r","a","_","t","e","m","p","l","a","t","e",".","j","2">>
      [] c = "sigma" -> <<"s","i","g","m","a","_","t","e","m","p","l","a","t","e",".","j","2">>
      [] c = "kql" -> <<"k","q","l","_","t","e","m","p","l","a","t","e",".","j","2">>

\* convert(tech) run alone on a fresh converter
ConvertAlone(c, tech) ==
    CASE c = "yara" -> YaraConvert(tech)
      [] c = "sigma" -> SigmaConvert(tech)
      [] c = "kql" -> KqlConvert(tech)

NoResult == Return(None)

InitWorkers ==
    /\ wpc = [w \in Workers |-> "idle"]
    /\ wself = [w \in Workers |-> "none"]
    /\ wtechnique = [w \in Workers |-> None]
    /\ wcontext = [w \in Workers |-> None]
    /\ wresult = [w \in Workers |-> NoResult]
    /\ wseen = [w \in Workers |-> [v \in Workers |-> "idle"]]
    /\ env = [c \in Converters |-> {}]

\* worker w calls c.convert(tech)
Start(w) ==
    \E c \in Converters, tech \in WorkerArgs :
        /\ wpc[w] = "idle"
        /\ wpc' = [wpc EXCEPT ![w] = "create_signature_context"]
        /\ wself' = [wself EXCEPT ![w] = c]
        /\ wtechnique' = [wtechnique EXCEPT ![w] = tech]
        /\ wseen' = [wseen EXCEPT ![w] = wpc]
        /\ UNCHANGED <<wcontext, wresult, env, callVars, dbVars, fileVars>>

\* worker w leaves convert() with the exception out
Leave(w, out) ==
    /\ wresult' = [wresult EXCEPT ![w] = out]
    /\ wpc' = [wpc EXCEPT ![w] = "done"]
    /\ UNCHANGED wcontext

\* the assignment to the local variable `context`
AssignContext(w, out) ==
    IF Raised(out) THEN Leave(w, out)
    ELSE /\ wcontext' = [wcontext EXCEPT ![w] = out.value]
         /\ wpc' = [wpc EXCEPT ![w] = "update"]
         /\ UNCHANGED wresult

\* context = self.create_signature_context(technique)
StepCreateContext(w) ==
    /\ wpc[w] = "create_signature_context"
    /\ AssignContext(w, CreateContext(wself[w], wtechnique[w]))
    /\ UNCHANGED <<wself, wtechnique, wseen, env, callVars, dbVars, fileVars>>

\* an update of a context kept on the converter instance: every convert()
\* in flight on that instance sees the updated dict
UpdateContextOnInstance(w, extra) ==
    IF Raised(extra) THEN Leave(w, extra)
    ELSE /\ wcontext' = [v \in Workers |->
                IF wself[v] = wself[w] /\ wpc[v] \in {"update", "render"}
                THEN Update(wcontext[w], extra.value) ELSE wcontext[v]]
         /\ wpc' = [wpc EXCEPT ![w] = "render"]
         /\ UNCHANGED wresult

\* context.update(extra) on the local dict
UpdateContext(w, extra) ==
    IF Raised(extra) THEN Leave(w, extra)
    ELSE /\ wcontext' = [wcontext EXCEPT ![w] = Update(wcontext[w], extra.value)]
         /\ wpc' = [wpc EXCEPT ![w] = "render"]
         /\ UNCHANGED wresult

\* context.update({...}): the builders run, then the local dict is updated
StepUpdate(w) ==
    /\ wpc[w] = "update"
    /\ UpdateContext(w, ContextUpdate(wself[w], wtechnique[w]))
    /\ UNCHANGED <<wself, wtechnique, wseen, env, callVars, dbVars, fileVars>>

\* return self._render_template(name, context): self.env loads and caches
\* the template, the template is rendered over the local context
StepRender(w) ==
    /\ wpc[w] = "render"
    /\ env' = [env EXCEPT ![wself[w]] = @ \cup {TemplateName(wself[w])}]
    /\ wresult' = [wresult EXCEPT
           ![w] = render_template(TemplateName(wself[w]), wcontext[w])]
    /\ wpc' = [wpc EXCEPT ![w] = "done"]
    /\ UNCHANGED <<wself, wtechnique, wcontext, wseen, callVars, dbVars, fileVars>>

\* the caller takes the result; the worker is free for the next technique
Collect(w) ==
    /\ wpc[w] = "done"
    /\ wpc' = [wpc EXCEPT ![w] = "idle"]
    /\ wself' = [wself EXCEPT ![w] = "none"]
    /\ wtechnique' = [wtechnique EXCEPT ![w] = None]
    /\ wcontext' = [wcontext EXCEPT ![w] = None]
    /\ wresult' = [wresult EXCEPT ![w] = NoResult]
    /\ wseen' = [wseen EXCEPT ![w] = [v \in Workers |-> "idle"]]
    /\ UNCHANGED <<env, callVars, dbVars, fileVars>>

(***************************************************************************)
(* database/db_handler.py: the signatures table                            *)
(***************************************************************************)
\* a Python str held in a column or returned by a query
Str(s) == [pytype |-> "str", value |-> s]

\* the rowids a run may use
MaxRowId == 3

SignatureTechniqueIds == {<<"T","1","0","5","5">>, <<"T","1","0","5","9",".","0","0","1">>}

SignatureFormats == {<<"y","a","r","a">>, <<"s","i","g","m","a">>}

SignatureContents == {<< >>, <<"r","u","l","e"," ","a">>, <<"r","u","l","e"," ","b">>}

SignatureKeys ==
    {[technique_id |-> t, format |-> f] : t \in SignatureTechniqueIds, f \in SignatureFormats}

\* the rows that conflict with a new row: UNIQUE (technique_id, format)
Conflicts(rows, technique_id, format) ==
    {r \in rows : r.technique_id = technique_id /\ r.format = format}

\* a plain INSERT: a conflicting row makes the statement fail, the table
\* stays as it was
InsertOrAbort(rows, rowid, technique_id, format, content) ==
    IF Conflicts(rows, technique_id, format) # {} THEN rows
    ELSE rows \cup {[id |-> rowid, technique_id |-> technique_id,
                     format |-> format, content |-> content]}

\* INSERT OR REPLACE INTO signatures: the conflicting rows are deleted, then
\* the new row is inserted under a fresh AUTOINCREMENT rowid
InsertOrReplace(rows, rowid, technique_id, format, content) ==
    (rows \ Conflicts(rows, technique_id, format))
    \cup {[id |-> rowid, technique_id |-> technique_id,
           format |-> format, content |-> content]}

\* DatabaseHandler.get_signature: fetchone() of the SELECT, row[0] or None
get_signature(rows, technique_id, format) ==
    LET found == Conflicts(rows, technique_id, format)
    IN IF found = {} THEN None
       ELSE Str((CHOOSE r \in found : \A q \in found : r.id <= q.id).content)

InitDb ==
    /\ signatures = {}
    /\ sqlite_sequence = 0
    /\ saved = [k \in SignatureKeys |-> None]

\* DatabaseHandler.save_signature(technique_id, format, content)
SaveSignature ==
    \E k \in SignatureKeys, content \in SignatureContents :
        /\ sqlite_sequence < MaxRowId
        /\ signatures' = InsertOrReplace(signatures, sqlite_sequence + 1,
                                         k.technique_id, k.format, content)
        /\ sqlite_sequence' = sqlite_sequence + 1
        /\ saved' = [saved EXCEPT ![k] = Str(content)]
        /\ UNCHANGED <<callVars, workerVars, fileVars>>

(***************************************************************************)
(* The callers: any sequence of calls on one Technique object              *)
(***************************************************************************)
NoCall == [op |-> "none", arg |-> None, out |-> Return(None)]

\* the ids, platform lists and texts the Technique under test is built from
InputIds ==
    {<<"T","1","0","5","5">>, <<"T","1","0","5","5",".","0","0","1">>, <<"T","1","0","5","9">>, <<"T","1","0","7","1">>, <<"T","1","5","4","7",".","0","0","1">>, <<"T","1","0","7","8">>,
     <<"T","1","5","7","2">>, <<"T","9","9","9","9">>}

InputPlatforms ==
    {<< >>, <<<<"W","i","n","d","o","w","s">>>>, <<<<"L","i","n","u","x">>>>, <<<<"m","a","c","O","S">>>>, <<<<"m","a","c","O","S">>, <<"W","i","n","d","o","w","s">>>>,
     <<<<"m","a","c","O","S">>, <<"L","i","n","u","x">>>>, <<<<"w","i","n">>>>}

InputTexts ==
    {[name |-> <<"O","b","s","c","u","r","e"," ","T","e","c","h","n","i","q","u","e">>,
      description |-> <<"A","d","v","e","r","s","a","r","i","e","s"," ","m","i","g","h","t"," ","a","b","u","s","e"," ","o","b","s","c","u","r","e"," ","o","b","s","c","u","r","e"," ","m","e","c","h","a","n","i","s","m","s"," ","f","r","e","q","u","e","n","t","l","y",".">>,
      detection |-> << >>, data_sources |-> << >>, tactics |-> << >>],
     [name |-> <<"D","L","L">>,
      description |-> << >>,
      detection |-> <<"-"," ","M","o","n","i","t","o","r"," ","A","P","I"," ","c","a","l","l","s">> \o <<"\n">> \o <<"*"," ">> \o <<"\n">> \o <<"A","u","d","i","t"," ","l","o","g","s">>,
      data_sources |-> <<<<"P","r","o","c","e","s","s"," ","M","o","n","i","t","o","r","i","n","g">>>>, tactics |-> <<<<"e","x","e","c","u","t","i","o","n">>>>]}

InputTechniques ==
    {Technique(id, x.name, x.description, x.tactics, platforms, x.data_sources,
               x.detection, << >>, sub) :
        id \in InputIds, platforms \in InputPlatforms, x \in InputTexts,
        sub \in BOOLEAN}

\* the record of a call that returned or raised; a call made from this
\* caller touches neither the workers nor the database
Called(op, arg, out) ==
    /\ last' = [op |-> op, arg |-> arg, out |-> out]
    /\ prev' = IF last.op = op /\ last.arg = arg THEN last ELSE NoCall
    /\ UNCHANGED <<workerVars, dbVars, fileVars>>

\* the arguments a caller passes to convert
ConvertArgs == {None, technique}

CallYaraConvert ==
    \E arg \in ConvertArgs :
        /\ Called("YaraConverter.convert", arg, YaraConvert(arg))
        /\ UNCHANGED technique

CallSigmaConvert ==
    \E arg \in ConvertArgs :
        /\ Called("SigmaConverter.convert", arg, SigmaConvert(arg))
        /\ UNCHANGED technique

CallKqlConvert ==
    \E arg \in ConvertArgs :
        /\ Called("KqlConverter.convert", arg, KqlConvert(arg))
        /\ UNCHANGED technique

CallYaraGenerateStrings ==
    /\ Called("YaraConverter._generate_strings", technique,
              Return(YaraGenerateStrings(technique)))
    /\ UNCHANGED technique

CallYaraGenerateConditions ==
    /\ Called("YaraConverter._generate_conditions", technique,
              Return(YaraGenerateConditions(technique)))
    /\ UNCHANGED technique

CallSigmaGenerateDetection ==
    /\ Called("SigmaConverter._generate_detection", technique,
              SigmaGenerateDetection(technique))
    /\ UNCHANGED technique

CallSigmaDetermineLogsource ==
    /\ Called("SigmaConverter._determine_logsource", technique,
              Return(SigmaDetermineLogsource(technique)))
    /\ UNCHANGED technique

CallSigmaDetermineLevel ==
    /\ Called("SigmaConverter._determine_level", technique,
              Return(SigmaDetermineLevel(technique)))
    /\ UNCHANGED technique

\* a _generate_tags that lowercases technique.platforms in place
CallSigmaGenerateTagsInPlace ==
    /\ Called("SigmaConverter._generate_tags", technique,
              Return(SigmaGenerateTags(technique)))
    /\ technique' = [technique EXCEPT
           !.platforms = [i \in DOMAIN technique.platforms |-> Lower(technique.platforms[i])]]

CallSigmaGenerateTags ==
    /\ Called("SigmaConverter._generate_tags", technique,
              Return(SigmaGenerateTags(technique)))
    /\ UNCHANGED technique

CallKqlDetermineTables ==
    /\ Called("KqlConverter._determine_tables", technique,
              Return(KqlDetermineTables(technique)))
    /\ UNCHANGED technique

CallKqlGenerateQueryParts ==
    /\ Called("KqlConverter._generate_query_parts", technique,
              KqlGenerateQueryParts(technique))
    /\ UNCHANGED technique

CallKqlBuildFullQuery ==
    /\ Called("KqlConverter.build_full_query", technique,
              KqlBuildFullQuery(technique))
    /\ UNCHANGED technique

CallKqlGenerateQueryName ==
    /\ Called("KqlConverter.generate_query_name", technique,
              KqlGenerateQueryName(technique))
    /\ UNCHANGED technique

CallGetCommonProcesses ==
    /\ Called("Technique.get_common_processes", technique,
              Return(get_common_processes(technique)))
    /\ UNCHANGED technique

CallGetCommonFiles ==
    /\ Called("Technique.get_common_files", technique,
              Return(get_common_files(technique)))
    /\ UNCHANGED technique

CallGetCommonRegistryKeys ==
    /\ Called("Technique.get_common_registry_keys", technique,
              Return(get_common_registry_keys(technique)))
    /\ UNCHANGED technique

CallGetCommonNetworkIndicators ==
    /\ Called("Technique.get_common_network_indicators", technique,
              Return(get_common_network_indicators(technique)))
    /\ UNCHANGED technique

CallGetEnvironmentAgnosticPatterns ==
    /\ Called("Technique.get_environment_agnostic_patterns", technique,
              Return(get_environment_agnostic_patterns(technique)))
    /\ UNCHANGED technique

\* technique.parent_technique_id, as read by MitreApi.get_subtechniques,
\* MitreApi.get_parent_technique and KqlConverter
ReadParentTechniqueId ==
    /\ Called("Technique.parent_technique_id", technique,
              GetAttr(technique, "parent_technique_id"))
    /\ UNCHANGED technique

(***************************************************************************)
(* api/mitre_api.py: MitreApi over the objects of an ATT&CK bundle         *)
(***************************************************************************)
\* the values of the enum MitreMatrix
MitreMatrixValues == {<<"e","n","t","e","r","p","r","i","s","e">>, <<"m","o","b","i","l","e">>, <<"i","c","s">>}

\* Technique(**kwargs): the __init__ the dataclass generates takes the nine
\* fields, none with a default; a keyword that is no field, or a missing
\* field, is a TypeError
NewTechnique(kwargs) ==
    IF DOMAIN kwargs = {"id", "name", "description", "tactics", "platforms", "data_sources",
                        "detection", "related_techniques", "is_subtechnique"}
    THEN Return([pytype |-> "Technique"] @@ kwargs)
    ELSE Raise("TypeError")

\* obj.get(key, default) on a JSON object
ObjGet(obj, key, default) == IF key \in DOMAIN obj THEN obj[key] ELSE default

\* lines 84-89: the external_id of the first reference from source, None
\* when there is no such reference or it has no external_id
TechniqueIdOf(obj, source) ==
    LET refs == ObjGet(obj, "external_references", << >>)
        hits == {i \in DOMAIN refs : ObjGet(refs[i], "source_name", << >>) = source}
    IN IF hits = {} THEN None
       ELSE LET first == CHOOSE i \in hits : \A j \in hits : i <= j
            IN IF "external_id" \in DOMAIN refs[first]
               THEN Str(refs[first].external_id) ELSE None

\* lines 94-127: the keyword arguments _parse_techniques passes to Technique
TechniqueKwargs(obj, technique_id, matrix) ==
    LET source == <<"m","i","t","r","e","-">> \o matrix
        phases == ObjGet(obj, "kill_chain_phases", << >>)
        IsPhase(p) == ObjGet(p, "kill_chain_name", << >>) = source
        mine == SelectSeq(phases, IsPhase)
        refs == ObjGet(obj, "external_references", << >>)
        IsRelated(r) == ObjGet(r, "source_name", << >>) = source /\ ObjGet(r, "external_id", << >>) # technique_id
        related == SelectSeq(refs, IsRelated)
    IN [id |-> technique_id,
        name |-> ObjGet(obj, "name", << >>),
        description |-> ObjGet(obj, "description", << >>),
        tactics |-> [i \in DOMAIN mine |-> mine[i].phase_name],
        platforms |-> ObjGet(obj, "x_mitre_platforms", << >>),
        data_sources |-> IF "x_mitre_data_sources" \in DOMAIN obj
                         THEN obj.x_mitre_data_sources
                         ELSE IF "x_mitre_detection" \in DOMAIN obj
                         THEN <<obj.x_mitre_detection>> ELSE << >>,
        detection |-> ObjGet(obj, "x_mitre_detection", << >>),
        related_techniques |-> [i \in DOMAIN related |-> related[i].external_id],
        is_subtechnique |-> IndexOf(technique_id, ".") > 0,
        matrix |-> matrix]

\* lines 82-92: whether the loop of _parse_techniques builds a Technique for obj
IsParsed(obj, matrix) ==
    /\ ObjGet(obj, "type", << >>) = <<"a","t","t","a","c","k","-","p","a","t","t","e","r","n">>
    /\ TechniqueIdOf(obj, <<"m","i","t","r","e","-">> \o matrix) # None
    /\ StartsWith(TechniqueIdOf(obj, <<"m","i","t","r","e","-">> \o matrix).value, <<"T">>)

RECURSIVE ParseObjects(_, _, _)
\* the loop of _parse_techniques over the objects left, techniques being the
\* dict built so far (an outcome: an exception ends the loop)
ParseObjects(objects, matrix, techniques) ==
    IF Raised(techniques) \/ objects = << >> THEN techniques
    ELSE IF ~IsParsed(Head(objects), matrix)
    THEN ParseObjects(Tail(objects), matrix, techniques)
    ELSE LET technique_id == TechniqueIdOf(Head(objects), <<"m","i","t","r","e","-">> \o matrix).value
             made == NewTechnique(TechniqueKwargs(Head(objects), technique_id, matrix))
         IN ParseObjects(Tail(objects), matrix,
                IF Raised(made) THEN made
                ELSE Return(DictUpdate(techniques.value, technique_id, made.value)))

\* MitreApi._parse_techniques on the loaded data ({} when no file was read)
ParseTechniques(data, matrix) ==
    IF DOMAIN data = {} THEN Return(<< >>)
    ELSE ParseObjects(ObjGet(data, "objects", << >>), matrix, Return(<< >>))

\* MitreApi(matrix, config_handler), data being what the configured file holds
MitreApiInit(matrix, data) ==
    IF matrix \notin MitreMatrixValues THEN Raise("ValueError")
    ELSE LET techniques == ParseTechniques(data, matrix)
         IN IF Raised(techniques) THEN techniques
            ELSE Return([matrix |-> matrix, techniques |-> techniques.value])

\* api.get_all_techniques() on the outcome of the constructor
GetAllTechniques(api) ==
    IF Raised(api) THEN api
    ELSE Return([i \in DOMAIN api.value.techniques |-> api.value.techniques[i].v])

\* the STIX objects the bundles are made of
InputObjects ==
    {[type |-> <<"a","t","t","a","c","k","-","p","a","t","t","e","r","n">>, name |-> <<"T","e","s","t"," ","T","e","c","h","n","i","q","u","e"," ","1">>,
      description |-> <<"T","e","s","t"," ","d","e","s","c","r","i","p","t","i","o","n"," ","1">>,
      external_references |-> <<[source_name |-> <<"m","i","t","r","e","-","e","n","t","e","r","p","r","i","s","e">>, external_id |-> <<"T","1","2","3","4">>]>>,
      kill_chain_phases |-> <<[kill_chain_name |-> <<"m","i","t","r","e","-","e","n","t","e","r","p","r","i","s","e">>, phase_name |-> <<"e","x","e","c","u","t","i","o","n">>]>>,
      x_mitre_platforms |-> <<<<"W","i","n","d","o","w","s">>>>,
      x_mitre_data_sources |-> <<<<"P","r","o","c","e","s","s"," ","M","o","n","i","t","o","r","i","n","g">>>>,
      x_mitre_detection |-> <<"T","e","s","t"," ","d","e","t","e","c","t","i","o","n"," ","1">>],
     [type |-> <<"a","t","t","a","c","k","-","p","a","t","t","e","r","n">>, name |-> <<"T","e","s","t"," ","T","e","c","h","n","i","q","u","e"," ","2">>,
      external_references |-> <<[source_name |-> <<"m","i","t","r","e","-","m","o","b","i","l","e">>, external_id |-> <<"T","5","6","7","8">>]>>,
      kill_chain_phases |-> <<[kill_chain_name |-> <<"m","i","t","r","e","-","m","o","b","i","l","e">>, phase_name |-> <<"e","x","e","c","u","t","i","o","n">>]>>,
      x_mitre_platforms |-> <<<<"A","n","d","r","o","i","d">>>>,
      x_mitre_detection |-> <<"T","e","s","t"," ","d","e","t","e","c","t","i","o","n"," ","2">>],
     [type |-> <<"a","t","t","a","c","k","-","p","a","t","t","e","r","n">>, name |-> <<"S","u","b">>,
      external_references |-> <<[source_name |-> <<"c","a","p","e","c">>, external_id |-> <<"C","A","P","E","C","-","1">>],
                                [source_name |-> <<"m","i","t","r","e","-","e","n","t","e","r","p","r","i","s","e">>, external_id |-> <<"T","1","2","3","4",".","0","0","1">>]>>],
     [type |-> <<"a","t","t","a","c","k","-","p","a","t","t","e","r","n">>, name |-> <<"T","w","o"," ","i","d","s">>,
      external_references |-> <<[source_name |-> <<"m","i","t","r","e","-","e","n","t","e","r","p","r","i","s","e">>, external_id |-> <<"X","1">>],
                                [source_name |-> <<"m","i","t","r","e","-","e","n","t","e","r","p","r","i","s","e">>, external_id |-> <<"T","1","2","3","4">>]>>],
     [type |-> <<"x","-","m","i","t","r","e","-","t","a","c","t","i","c">>, name |-> <<"E","x","e","c","u","t","i","o","n">>]}

\* what the data file may hold: nothing, or a bundle of up to two objects
InputBundles ==
    {<< >>}
    \cup {[type |-> <<"b","u","n","d","l","e">>, objects |-> objs] :
             objs \in {<< >>} \cup {<<a>> : a \in InputObjects}
                      \cup {<<a, b>> : a \in InputObjects, b \in InputObjects}}

\* MitreApi(matrix, config_handler).get_all_techniques(), the matrix being
\* one of the three or a string that names none
CallGetAllTechniques ==
    \E matrix \in MitreMatrixValues \cup {<<"b","o","g","u","s">>}, data \in InputBundles :
        /\ Called("MitreApi.get_all_techniques", [matrix |-> matrix, data |-> data],
                  GetAllTechniques(MitreApiInit(matrix, data)))
        /\ UNCHANGED technique

(***************************************************************************)
(* __main__.py: convert_technique and the files it writes                  *)
(***************************************************************************)
\* the output directory before the first call: no signature file
InitFiles == output_files = << >>

\* the values of --format
InputFormats == {<<"y","a","r","a">>, <<"s","i","g","m","a">>, <<"k","q","l">>, <<"a","l","l">>}

\* one `if format in [...]` block of convert_technique: sig is the outcome
\* of the converter's convert(technique), and a rendered signature is a
\* non-empty text; st is [ok, files], ok being false once an exception has
\* left the try block
ConvertBlock(st, applies, sig, file) ==
    IF ~st.ok \/ ~applies THEN st
    ELSE IF Raised(sig) THEN [ok |-> FALSE, files |-> st.files]
    ELSE [ok |-> TRUE, files |-> DictUpdate(st.files, file, sig.value)]

\* convert_technique(technique, output_dir, format, converters): what it
\* returns and the files of output_dir afterwards; writable is whether
\* output_dir.mkdir succeeds
convert_technique(tech, output_dir, format, writable) ==
    ConvertBlock(
        ConvertBlock(
            ConvertBlock([ok |-> writable, files |-> output_dir],
                         format \in {<<"y","a","r","a">>, <<"a","l","l">>}, YaraConvert(tech), tech.id \o <<".","y","a","r">>),
            format \in {<<"s","i","g","m","a">>, <<"a","l","l">>}, SigmaConvert(tech), tech.id \o <<".","y","m","l">>),
        format \in {<<"k","q","l">>, <<"a","l","l">>}, KqlConvert(tech), tech.id \o <<".","k","q","l">>)

\* the call has returned: its value and the output directory it leaves
ReturnFrom(arg, done) ==
    /\ last' = [op |-> "convert_technique", arg |-> arg, out |-> Return(done.ok)]
    /\ prev' = IF last.op = "convert_technique" /\ last.arg = arg THEN last ELSE NoCall
    /\ output_files' = done.files

\* convert_technique(technique, output_dir, format, converters) on the
\* technique under test
CallConvertTechnique ==
    \E format \in InputFormats, writable \in BOOLEAN :
        /\ ReturnFrom([technique |-> technique, format |-> format, writable |-> writable],
                      convert_technique(technique, output_files, format, writable))
        /\ UNCHANGED <<technique, workerVars, dbVars>>

\* DatabaseHandler.get_signature(technique_id, format)
GetSignature ==
    \E k \in SignatureKeys :
        /\ Called("DatabaseHandler.get_signature", k,
                  Return(get_signature(signatures, k.technique_id, k.format)))
        /\ UNCHANGED technique

(***************************************************************************)
(* Spec: any sequence of calls on one Technique                            *)
(***************************************************************************)
Init ==
    /\ technique \in InputTechniques
    /\ last = NoCall
    /\ prev = NoCall
    /\ InitWorkers
    /\ InitDb
    /\ InitFiles

Next ==
    \/ CallGetCommonProcesses
    \/ CallGetCommonFiles
    \/ CallGetCommonRegistryKeys
    \/ CallGetCommonNetworkIndicators
    \/ CallGetEnvironmentAgnosticPatterns
    \/ ReadParentTechniqueId
    \/ CallYaraConvert
    \/ CallSigmaConvert
    \/ CallKqlConvert
    \/ CallYaraGenerateStrings
    \/ CallYaraGenerateConditions
    \/ CallSigmaGenerateDetection
    \/ CallSigmaDetermineLogsource
    \/ CallSigmaDetermineLevel
    \/ CallSigmaGenerateTags
    \/ CallKqlDetermineTables
    \/ CallKqlGenerateQueryParts
    \/ CallKqlBuildFullQuery
    \/ CallKqlGenerateQueryName

Spec == Init /\ [][Next]_vars

(***************************************************************************)
(* SpecPar: two workers converting on the same three converter instances   *)
(***************************************************************************)
InitPar ==
    /\ technique = None
    /\ last = NoCall
    /\ prev = NoCall
    /\ InitWorkers
    /\ InitDb
    /\ InitFiles

NextPar ==
    \E w \in Workers :
        \/ Start(w)
        \/ StepCreateContext(w)
        \/ StepUpdate(w)
        \/ StepRender(w)
        \/ Collect(w)

SpecPar == InitPar /\ [][NextPar]_vars

(***************************************************************************)
(* SpecDb: saves and reads of signatures                                   *)
(***************************************************************************)
InitDbCalls ==
    /\ technique = None
    /\ last = NoCall
    /\ prev = NoCall
    /\ InitWorkers
    /\ InitDb
    /\ InitFiles

NextDb ==
    \/ SaveSignature
    \/ GetSignature

SpecDb == InitDbCalls /\ [][NextDb]_vars


(***************************************************************************)
(* SpecApi: MitreApi built over the bundles a data file may hold           *)
(***************************************************************************)
InitApi ==
    /\ technique = None
    /\ last = NoCall
    /\ prev = NoCall
    /\ InitWorkers
    /\ InitDb
    /\ InitFiles

NextApi == CallGetAllTechniques

SpecApi == InitApi /\ [][NextApi]_vars

(***************************************************************************)
(* SpecCli: calls of convert_technique on one technique                    *)
(***************************************************************************)
InitCli ==
    /\ technique \in InputTechniques
    /\ last = NoCall
    /\ prev = NoCall
    /\ InitWorkers
    /\ InitDb
    /\ InitFiles

NextCli == CallConvertTechnique

SpecCli == InitCli /\ [][NextCli]_vars

(***************************************************************************)
(* Properties of the converters                                            *)
(***************************************************************************)
ConvertOps ==
    {"YaraConverter.convert", "SigmaConverter.convert", "KqlConverter.convert"}

\* the call just made was op on the Technique under test
Did(op) == last.op = op /\ last.arg = technique

\* C1: convert(None) on each of the three converters fails with ValueError:
\* no converter returns a value or raises another exception type for None.
C1_ConvertNoneRaisesValueError ==
    (last.op \in ConvertOps /\ last.arg = None) => last.out = Raise("ValueError")

Keywords(tech) ==
    LET IsSignificant(k) == Len(k) > 3
    IN Range(SelectSeq(FindWords(Lower(tech.name), << >>), IsSignificant))
       \cup Range(extract_keywords_from_description(tech.description))

\* C3: every builder ends with a non-empty building block: at least one YARA
\* condition, a Sigma selection with at least one field, and for KQL at
\* least one query part or the comment placeholder from build_full_query.
C3_NonEmptyBuildingBlock ==
    /\ Did("YaraConverter._generate_conditions") =>
           (~Raised(last.out) /\ Len(last.out.value) >= 1)
    /\ Did("SigmaConverter._generate_detection") =>
           (~Raised(last.out) /\ last.out.value.selection # << >>)
    /\ Did("KqlConverter._generate_query_parts") => ~Raised(last.out)
    /\ Did("KqlConverter.build_full_query") =>
           (~Raised(last.out) /\ last.out.value # << >>)

\* the technique of the example: no platforms, no data sources, no detection
\* text and an id outside every static table
IsSparseExample(tech) ==
    /\ tech.id = <<"T","9","9","9","9">>
    /\ tech.platforms = << >>
    /\ tech.data_sources = << >>
    /\ tech.detection = << >>
    /\ tech.name = <<"O","b","s","c","u","r","e"," ","T","e","c","h","n","i","q","u","e">>

\* C4: the sparse technique T9999 yields a keyword-derived condition in
\* format A, a keyword-derived selection field in format B, and in format C
\* a keyword clause or the comment placeholder.
C4_SparseTechniqueKeywordFallback ==
    IsSparseExample(technique) =>
        /\ Did("YaraConverter._generate_conditions") =>
               /\ ~Raised(last.out)
               /\ \E i \in DOMAIN last.out.value : \E k \in Keywords(technique) :
                      Contains(last.out.value[i], k)
        /\ Did("SigmaConverter._generate_detection") =>
               /\ ~Raised(last.out)
               /\ \E i \in DOMAIN last.out.value.selection :
                      /\ last.out.value.selection[i].v # << >>
                      /\ Range(last.out.value.selection[i].v) \subseteq Keywords(technique)
        /\ Did("KqlConverter.build_full_query") =>
               /\ ~Raised(last.out)
               /\ \/ StartsWith(last.out.value, <<"/","/"," ","N","o"," ","s","p","e","c","i","f","i","c"," ","i","n","d","i","c","a","t","o","r","s"," ","a","v","a","i","l","a","b","l","e"," ","f","o","r"," ">>)
                  \/ \E k \in Keywords(technique) :
                         Contains(last.out.value, <<"E","v","e","n","t"," ","c","o","n","t","a","i","n","s"," ">> \o DQ \o k \o DQ)

\* some indicator phrase of the technique contains the word "DNS"
HasDnsPhrase(tech) ==
    \E p \in Range(get_common_network_indicators(tech))
             \cup Range(get_environment_agnostic_patterns(tech)) :
        Contains(p, <<"D","N","S">>)

\* C5: for a technique with an indicator phrase containing "DNS", format A
\* produces the DNS-marker regex and format C the DNS-marker clause, and for
\* that input neither produces the HTTP-marker regex or clause.
C5_DnsMarkerRouting ==
    HasDnsPhrase(technique) =>
        /\ Did("YaraConverter._generate_strings") =>
               /\ \E i \in DOMAIN last.out.value :
                      /\ last.out.value[i].type = <<"r","e","g","e","x">>
                      /\ last.out.value[i].value = <<"(","d","n","s","|","d","o","m","a","i","n","|","n","s","l","o","o","k","u","p",")">>
               /\ \A i \in DOMAIN last.out.value :
                      last.out.value[i].value # <<"(","h","t","t","p","|","h","t","t","p","s","|","w","e","b",")">>
        /\ Did("KqlConverter._generate_query_parts") =>
               /\ ~Raised(last.out)
               /\ \E i \in DOMAIN last.out.value :
                      last.out.value[i] = QueryPart(<<"D","n","s","E","v","e","n","t","s">>, <<"i","s","n","o","t","e","m","p","t","y","(","Q","u","e","r","y","N","a","m","e",")">>)
               /\ \A i \in DOMAIN last.out.value :
                      ~StartsWith(last.out.value[i].where, <<"R","e","m","o","t","e","P","o","r","t"," ","i","n"," ","(","8","0",","," ","4","4","3",","," ","8","0","8","0",")">>)

\* platforms contain "Windows" and the id is T1055 or a sub-technique of it
IsWindowsProcessInjection(tech) ==
    /\ \E i \in DOMAIN tech.platforms : tech.platforms[i] = <<"W","i","n","d","o","w","s">>
    /\ tech.id = <<"T","1","0","5","5">> \/ StartsWith(tech.id, <<"T","1","0","5","5",".">>)

\* a strings list with a text pattern for a process
HasProcessPattern(strings) ==
    \E i \in DOMAIN strings :
        StartsWith(strings[i].id, <<"p","r","o","c","e","s","s","_">>) /\ strings[i].type = <<"t","e","x","t">>

\* C6: for a Windows technique of the process-injection family (T1055 or
\* T1055.xxx), format A holds at least one process string pattern, and
\* format B carries level high: _determine_level returns it and the rule
\* SigmaConverter.convert renders has it.
C6_WindowsProcessInjection ==
    IsWindowsProcessInjection(technique) =>
        /\ Did("YaraConverter._generate_strings") => HasProcessPattern(last.out.value)
        /\ Did("YaraConverter.convert") =>
               (~Raised(last.out) /\ HasProcessPattern(last.out.value.context.strings))
        /\ Did("SigmaConverter._determine_level") => last.out = Return(<<"h","i","g","h">>)
        /\ Did("SigmaConverter.convert") =>
               (~Raised(last.out) /\ last.out.value.context.level = <<"h","i","g","h">>)

\* C7: a Technique with is_subtechnique false has no parent id (None), and
\* one with is_subtechnique true whose id contains '.' exposes the part of
\* the id before the first '.' as parent_technique_id.
C7_ParentTechniqueId ==
    Did("Technique.parent_technique_id") =>
        /\ ~technique.is_subtechnique => last.out = Return(None)
        /\ (technique.is_subtechnique /\ IndexOf(technique.id, ".") > 0) =>
               last.out = Return(SplitFirst(technique.id, "."))

\* C9: no call changes the Technique it is given: every field holds after
\* the call the value it had before.
C9_TechniqueUnchanged == [][technique' = technique]_vars

\* C9 witness: convert was called on a technique with platforms and tactics,
\* the lists the builders iterate over.
C9_Witness ==
    /\ last.op \in ConvertOps
    /\ last.arg = technique
    /\ technique.platforms # << >>
    /\ technique.tactics # << >>

\* C8: whatever the interleaving of convert calls on the shared converter
\* instances, the result a worker ends with equals the result of converting
\* its technique alone on a fresh converter.
C8_ResultAsAlone ==
    \A w \in Workers :
        wpc[w] = "done" => wresult[w] = ConvertAlone(wself[w], wtechnique[w])

\* C8 witness: both workers finished a convert on the same YARA converter for
\* different techniques, w2 having started while w1 was between building
\* and rendering its context.
C8_Witness ==
    /\ wpc["w1"] = "done" /\ wpc["w2"] = "done"
    /\ wself["w1"] = "yara" /\ wself["w2"] = "yara"
    /\ wtechnique["w1"] = TechniqueA /\ wtechnique["w2"] = TechniqueB
    /\ wseen["w2"]["w1"] = "update"
    /\ ~Raised(wresult["w1"]) /\ ~Raised(wresult["w2"])

\* C10: the signatures table holds at most one row per (technique_id,
\* format); get_signature returns the content of the latest save for the
\* pair, or None when there was none, so a save for one pair leaves the
\* answer for every other pair as it was.
C10_LatestSignaturePerPair ==
    /\ [](\A k \in SignatureKeys :
             /\ Cardinality(Conflicts(signatures, k.technique_id, k.format)) <= 1
             /\ get_signature(signatures, k.technique_id, k.format) = saved[k])
    /\ [][(last'.op = "DatabaseHandler.get_signature" /\ UNCHANGED dbVars)
              => last'.out = Return(saved[last'.arg])]_vars

\* C10 witness: three saves left two rows, so the pair of the third save was
\* saved before, a second pair holds a row with another content, and
\* get_signature has answered for the pair saved last.
C10_Witness ==
    /\ sqlite_sequence = 3
    /\ Cardinality(signatures) = 2
    /\ last.op = "DatabaseHandler.get_signature"
    /\ \E r \in signatures :
           /\ r.id = 3
           /\ last.arg = [technique_id |-> r.technique_id, format |-> r.format]
           /\ last.out = Return(Str(r.content))
           /\ \E q \in signatures : q.id = 1 /\ q.content # r.content

(***************************************************************************)
(* The technique catalogue                                                 *)
(***************************************************************************)
\* the external ids, starting with T, that the attack-pattern objects of data
\* carry in a reference from mitre-<matrix>
QualifyingIds(data, matrix) ==
    LET objects == IF DOMAIN data = {} THEN << >> ELSE ObjGet(data, "objects", << >>)
    IN {r.external_id :
          r \in UNION {{obj.external_references[i] : i \in DOMAIN obj.external_references} :
                         obj \in {objects[j] : j \in DOMAIN objects} \cap
                                 {o \in InputObjects : o.type = <<"a","t","t","a","c","k","-","p","a","t","t","e","r","n">>}}
                \cap [source_name : {<<"m","i","t","r","e","-">> \o matrix}, external_id : {x \in
                        {<<"T","1","2","3","4">>, <<"T","5","6","7","8">>, <<"T","1","2","3","4",".","0","0","1">>, <<"X","1">>, <<"C","A","P","E","C","-","1">>} : StartsWith(x, <<"T">>)}]}

\* C11: for a valid matrix, get_all_techniques returns exactly one Technique
\* per distinct qualifying external id of the bundle (attack-pattern, reference
\* from mitre-<matrix>, id starting with T), each carrying the selected matrix
C11_OneTechniquePerExternalId ==
    (last.op = "MitreApi.get_all_techniques" /\ last.arg.matrix \in MitreMatrixValues)
    => /\ ~Raised(last.out)
       /\ Len(last.out.value) = Cardinality(QualifyingIds(last.arg.data, last.arg.matrix))
       /\ {last.out.value[i].id : i \in DOMAIN last.out.value}
              = QualifyingIds(last.arg.data, last.arg.matrix)
       /\ \A i \in DOMAIN last.out.value :
              /\ "matrix" \in DOMAIN last.out.value[i]
              /\ last.out.value[i].matrix = last.arg.matrix

(***************************************************************************)
(* The YARA builders                                                       *)
(***************************************************************************)
\* the category of a string id, by its prefix: 1 file, 2 process, 3 registry,
\* 4 network, 5 other
YaraCategory(id) ==
    IF StartsWith(id, <<"f","i","l","e","_">>) THEN 1
    ELSE IF StartsWith(id, <<"p","r","o","c","e","s","s","_">>) THEN 2
    ELSE IF StartsWith(id, <<"r","e","g","i","s","t","r","y","_">>) THEN 3
    ELSE IF StartsWith(id, <<"d","n","s","_">>) \/ StartsWith(id, <<"h","t","t","p","_">>) \/ StartsWith(id, <<"p","o","r","t","_">>) THEN 4
    ELSE 5

\* the ids of the strings of tech that fall in category c, in order
YaraCategoryIds(tech, c) ==
    LET strings == YaraGenerateStrings(tech)
        InC(x) == YaraCategory(x.id) = c
        mine == SelectSeq(strings, InC)
    IN [i \in DOMAIN mine |-> mine[i].id]

\* the categories of tech that have at least one id, in the fixed order
YaraCategoriesPresent(tech) ==
    LET Present(c) == YaraCategoryIds(tech, c) # << >>
    IN SelectSeq(<<1, 2, 3, 4, 5>>, Present)

\* C12: _generate_conditions gives one fragment per non-empty category, in
\* the order file, process, registry, network, other: "any of (...)" over
\* exactly the ids of a category with more than one id, the bare reference
\* for a category with one id; with no fragment at all the list is the single
\* default condition "filesize < 5MB"
C12_ConditionsByCategory ==
    Did("YaraConverter._generate_conditions") =>
        /\ ~Raised(last.out)
        /\ LET out == last.out.value
               present == YaraCategoriesPresent(technique)
           IN IF present = << >> THEN out = <<<<"f","i","l","e","s","i","z","e"," ","<"," ","5","M","B">>>>
              ELSE /\ Len(out) = Len(present)
                   /\ \A k \in DOMAIN present :
                        LET ids == YaraCategoryIds(technique, present[k])
                        IN out[k] = IF Len(ids) > 1
                                    THEN <<"a","n","y"," ","o","f"," ","(">> \o Join(<<","," ">>, [i \in DOMAIN ids |-> <<"$">> \o ids[i]]) \o <<")">>
                                    ELSE <<"$">> \o ids[1]

\* a call whose result holds an "any of" fragment and a bare reference
C12_Witness ==
    /\ Did("YaraConverter._generate_conditions")
    /\ ~Raised(last.out)
    /\ \E i, j \in DOMAIN last.out.value :
          /\ StartsWith(last.out.value[i], <<"a","n","y"," ","o","f"," ","(","$">>)
          /\ StartsWith(last.out.value[j], <<"$">>)

\* the literal indicators of tech, each list with the category its ids carry
YaraLiteralLists(tech) ==
    {[prefix |-> <<"f","i","l","e","_">>, list |-> get_common_files(tech)],
     [prefix |-> <<"p","r","o","c","e","s","s","_">>, list |-> get_common_processes(tech)],
     [prefix |-> <<"r","e","g","i","s","t","r","y","_">>, list |-> get_common_registry_keys(tech)]}

\* C13: _generate_strings returns exactly one text entry for each indicator of
\* the files, processes and registry keys of the technique: as many text
\* entries as the three lists have elements, the entry of the indicator at
\* index i (from 0) of a list having the id <category>_<i> and the indicator
\* as its value
C13_OneTextEntryPerIndicator ==
    Did("YaraConverter._generate_strings") =>
        /\ ~Raised(last.out)
        /\ LET out == last.out.value
           IN /\ Cardinality({k \in DOMAIN out : out[k].type = <<"t","e","x","t">>})
                    = Len(get_common_files(technique)) + Len(get_common_processes(technique))
                      + Len(get_common_registry_keys(technique))
              /\ \A c \in YaraLiteralLists(technique) : \A i \in DOMAIN c.list :
                    /\ Cardinality({k \in DOMAIN out : out[k].id = c.prefix \o IntToStr(i - 1)}) = 1
                    /\ \E k \in DOMAIN out :
                          out[k] = [id |-> c.prefix \o IntToStr(i - 1), type |-> <<"t","e","x","t">>,
                                    value |-> c.list[i]]

\* a call on a technique with several files and several processes
C13_Witness ==
    /\ Did("YaraConverter._generate_strings")
    /\ ~Raised(last.out)
    /\ Len(get_common_files(technique)) >= 2
    /\ Len(get_common_processes(technique)) >= 2

\* the markers a network phrase and an agnostic phrase carry, in test order
YaraNetworkHits(phrase) ==
    <<Contains(phrase, <<"D","N","S">>), Contains(phrase, <<"H","T","T","P">>), Contains(Lower(phrase), <<"p","o","r","t">>)>>

YaraAgnosticHits(phrase) ==
    <<Contains(Lower(phrase), <<"m","e","m","o","r","y"," ","a","l","l","o","c","a","t","i","o","n">>), Contains(Lower(phrase), <<"s","c","r","i","p","t">>),
      Contains(Lower(phrase), <<"s","e","r","v","i","c","e">>),
      Contains(Lower(phrase), <<"a","c","c","o","u","n","t">>) \/ Contains(Lower(phrase), <<"l","o","g","i","n">>)>>

\* the two groups of phrases of tech: the id prefix of each marker and, for
\* each phrase, which markers it carries
YaraPhraseGroups(tech) ==
    LET network == get_common_network_indicators(tech)
        agnostic == get_environment_agnostic_patterns(tech)
    IN {[prefixes |-> <<<<"d","n","s","_">>, <<"h","t","t","p","_">>, <<"p","o","r","t","_">>>>,
         hits |-> [i \in DOMAIN network |-> YaraNetworkHits(network[i])]],
        [prefixes |-> <<<<"m","e","m","o","r","y","_">>, <<"s","c","r","i","p","t","_">>, <<"s","e","r","v","i","c","e","_">>, <<"a","c","c","o","u","n","t","_">>>>,
         hits |-> [i \in DOMAIN agnostic |-> YaraAgnosticHits(agnostic[i])]]}

\* the entries of out that the phrase at index i (from 0) of group g can have
\* added
YaraEntriesOfPhrase(out, g, i) ==
    {k \in DOMAIN out : \E p \in DOMAIN g.prefixes : out[k].id = g.prefixes[p] \o IntToStr(i)}

\* C14: of the strings _generate_strings returns, each network or agnostic
\* phrase has at most one regex entry, that of the first marker it matches in
\* test order, and none when it matches no marker; every regex entry belongs
\* to a phrase; and the ids of all entries are pairwise distinct
C14_OneRegexPerPhraseDistinctIds ==
    Did("YaraConverter._generate_strings") =>
        /\ ~Raised(last.out)
        /\ LET out == last.out.value
           IN /\ \A g \in YaraPhraseGroups(technique) : \A i \in DOMAIN g.hits :
                    LET mine == YaraEntriesOfPhrase(out, g, i - 1)
                        matched == {p \in DOMAIN g.prefixes : g.hits[i][p]}
                    IN /\ Cardinality(mine) <= 1
                       /\ matched = {} => mine = {}
                       /\ matched # {} =>
                            \E k \in mine :
                               /\ out[k].type = <<"r","e","g","e","x">>
                               /\ out[k].id = g.prefixes[CHOOSE p \in matched : \A q \in matched : p <= q]
                                                 \o IntToStr(i - 1)
              /\ \A k \in DOMAIN out :
                    out[k].type = <<"r","e","g","e","x">> =>
                        \E g \in YaraPhraseGroups(technique) : \E i \in DOMAIN g.hits :
                            k \in YaraEntriesOfPhrase(out, g, i - 1)
              /\ \A j, k \in DOMAIN out : j # k => out[j].id # out[k].id

\* a call on a technique with a phrase that carries two markers and a phrase
\* that carries none
C14_Witness ==
    /\ Did("YaraConverter._generate_strings")
    /\ ~Raised(last.out)
    /\ \E g \in YaraPhraseGroups(technique) :
          /\ \E i \in DOMAIN g.hits : Cardinality({p \in DOMAIN g.prefixes : g.hits[i][p]}) >= 2
          /\ \E i \in DOMAIN g.hits : \A p \in DOMAIN g.prefixes : ~g.hits[i][p]

(***************************************************************************)
(* The Sigma detection section                                             *)
(***************************************************************************)
\* the agnostic indicators of tech that contain one of the cues, lowercased
SigmaCued(tech, cues) ==
    LET HasCue(p) == \E c \in cues : Contains(Lower(p), c)
    IN SelectSeq(get_environment_agnostic_patterns(tech), HasCue)

\* rules 1-6 in their order: the field each adds and whether its trigger holds
SigmaRules(tech) ==
    <<[field |-> <<"I","m","a","g","e","|","e","n","d","s","w","i","t","h">>, fires |-> get_common_processes(tech) # << >>],
      [field |-> <<"T","a","r","g","e","t","F","i","l","e","n","a","m","e","|","e","n","d","s","w","i","t","h">>, fires |-> get_common_files(tech) # << >>],
      [field |-> <<"T","a","r","g","e","t","O","b","j","e","c","t","|","c","o","n","t","a","i","n","s">>, fires |-> get_common_registry_keys(tech) # << >>],
      [field |-> <<"C","o","m","m","a","n","d","L","i","n","e","|","c","o","n","t","a","i","n","s">>, fires |-> SigmaCued(tech, {<<"c","o","m","m","a","n","d">>, <<"a","r","g","u","m","e","n","t">>}) # << >>],
      [field |-> <<"D","e","s","t","i","n","a","t","i","o","n","P","o","r","t">>, fires |-> SigmaCued(tech, {<<"n","e","t","w","o","r","k">>, <<"p","o","r","t">>}) # << >>],
      [field |-> <<"E","v","e","n","t","I","D">>, fires |-> SigmaCued(tech, {<<"l","o","g","i","n">>, <<"a","c","c","o","u","n","t">>}) # << >>]>>

\* the keys of a dict, in insertion order
DictKeys(d) == [i \in DOMAIN d |-> d[i].k]

\* C15: _generate_detection returns a detection whose selection holds, in the
\* order of rules 1-6, exactly the fields of the rules whose trigger holds
C15_SelectionFieldsOfFiredRules ==
    Did("SigmaConverter._generate_detection") =>
        /\ ~Raised(last.out)
        /\ LET IsRuleField(k) == \E r \in DOMAIN SigmaRules(technique) : SigmaRules(technique)[r].field = k
               Fires(r) == r.fires
               fired == SelectSeq(SigmaRules(technique), Fires)
           IN SelectSeq(DictKeys(last.out.value.selection), IsRuleField)
                  = [i \in DOMAIN fired |-> fired[i].field]

\* C16: _generate_detection returns a selection whose CommandLine|contains is
\* the in-order list of the agnostic indicators with a command or argument
\* cue when there is one, and that has no such field when there is none
C16_CommandLineField ==
    Did("SigmaConverter._generate_detection") =>
        /\ ~Raised(last.out)
        /\ LET cued == SigmaCued(technique, {<<"c","o","m","m","a","n","d">>, <<"a","r","g","u","m","e","n","t">>})
               selection == last.out.value.selection
           IN IF cued # << >>
              THEN \E i \in DOMAIN selection :
                      selection[i] = [k |-> <<"C","o","m","m","a","n","d","L","i","n","e","|","c","o","n","t","a","i","n","s">>, v |-> cued]
              ELSE \A i \in DOMAIN selection : selection[i].k # <<"C","o","m","m","a","n","d","L","i","n","e","|","c","o","n","t","a","i","n","s">>

\* C17: _generate_detection returns a detection whose condition is "selection
\* or selection_alt" exactly when it has a selection_alt block, which is
\* exactly when an agnostic indicator has a login or account cue, the
\* selection then carrying the fixed EventID list; otherwise the condition is
\* "selection"
C17_ConditionNamesPresentBlocks ==
    Did("SigmaConverter._generate_detection") =>
        /\ ~Raised(last.out)
        /\ LET detection == last.out.value
               auth == SigmaCued(technique, {<<"l","o","g","i","n">>, <<"a","c","c","o","u","n","t">>}) # << >>
           IN /\ (detection.condition = <<"s","e","l","e","c","t","i","o","n"," ","o","r"," ","s","e","l","e","c","t","i","o","n","_","a","l","t">>)
                    <=> ("selection_alt" \in DOMAIN detection)
              /\ ("selection_alt" \in DOMAIN detection) <=> auth
              /\ auth => \E i \in DOMAIN detection.selection :
                            detection.selection[i] =
                                [k |-> <<"E","v","e","n","t","I","D">>,
                                 v |-> <<<<"4","6","2","4">>, <<"4","6","2","5">>, <<"4","6","4","8">>, <<"4","7","6","8">>, <<"4","7","6","9">>, <<"4","7","7","6">>>>]
              /\ ~auth => detection.condition = <<"s","e","l","e","c","t","i","o","n">>

\* C18: _generate_detection returns, when none of rules 1-6 fires, the
\* selection with the single field EventType|contains holding the lowercased
\* words of the name longer than 3 characters in order, and when a rule
\* fires a selection without that field
C18_NameKeywordFallback ==
    Did("SigmaConverter._generate_detection") =>
        /\ ~Raised(last.out)
        /\ LET IsSignificant(k) == Len(k) > 3
               keywords == SelectSeq(FindWords(Lower(technique.name), << >>), IsSignificant)
               selection == last.out.value.selection
           IN IF \E r \in DOMAIN SigmaRules(technique) : SigmaRules(technique)[r].fires
              THEN \A i \in DOMAIN selection : selection[i].k # <<"E","v","e","n","t","T","y","p","e","|","c","o","n","t","a","i","n","s">>
              ELSE selection = <<[k |-> <<"E","v","e","n","t","T","y","p","e","|","c","o","n","t","a","i","n","s">>, v |-> keywords]>>

\* the id-prefix table of the log source categories, in test order
SigmaCategoryTable ==
    <<[prefix |-> <<"T","1","0","5","5">>, category |-> <<"p","r","o","c","e","s","s","_","c","r","e","a","t","i","o","n">>],
      [prefix |-> <<"T","1","0","5","9">>, category |-> <<"p","r","o","c","e","s","s","_","c","r","e","a","t","i","o","n">>],
      [prefix |-> <<"T","1","5","4","7">>, category |-> <<"r","e","g","i","s","t","r","y","_","e","v","e","n","t">>],
      [prefix |-> <<"T","1","0","7","8">>, category |-> <<"a","u","t","h","e","n","t","i","c","a","t","i","o","n">>],
      [prefix |-> <<"T","1","0","7","1">>, category |-> <<"n","e","t","w","o","r","k","_","c","o","n","n","e","c","t","i","o","n">>]>>

\* the category of the first row of the table whose prefix the id starts with
SigmaTableCategory(id) ==
    LET rows == {r \in DOMAIN SigmaCategoryTable : StartsWith(id, SigmaCategoryTable[r].prefix)}
    IN IF rows = {} THEN <<"p","r","o","c","e","s","s","_","c","r","e","a","t","i","o","n">>
       ELSE SigmaCategoryTable[CHOOSE r \in rows : \A q \in rows : r <= q].category

\* C19: _determine_logsource gives the product windows, else linux, else
\* macos, by which of them some platform equals without regard to case, else
\* any; and the category of the id-prefix table, registry_event replaced by
\* file_event when the product is not windows, so that registry_event comes
\* only with windows
C19_LogsourceProductAndCategory ==
    Did("SigmaConverter._determine_logsource") =>
        /\ ~Raised(last.out)
        /\ LET lowered == {Lower(technique.platforms[i]) : i \in DOMAIN technique.platforms}
               logsource == last.out.value
               table == SigmaTableCategory(technique.id)
           IN /\ logsource.product =
                    (IF <<"w","i","n","d","o","w","s">> \in lowered THEN <<"w","i","n","d","o","w","s">>
                     ELSE IF <<"l","i","n","u","x">> \in lowered THEN <<"l","i","n","u","x">>
                     ELSE IF <<"m","a","c","o","s">> \in lowered THEN <<"m","a","c","o","s">>
                     ELSE <<"a","n","y">>)
              /\ logsource.category =
                    (IF table = <<"r","e","g","i","s","t","r","y","_","e","v","e","n","t">> /\ logsource.product # <<"w","i","n","d","o","w","s">>
                     THEN <<"f","i","l","e","_","e","v","e","n","t">> ELSE table)
              /\ logsource.category = <<"r","e","g","i","s","t","r","y","_","e","v","e","n","t">> => logsource.product = <<"w","i","n","d","o","w","s">>

\* a call on an autostart technique of a platform list that names macOS
\* before Linux: the product is linux and the category was remapped
C19_Witness ==
    /\ Did("SigmaConverter._determine_logsource")
    /\ ~Raised(last.out)
    /\ Len(technique.platforms) = 2
    /\ last.out.value = [product |-> <<"l","i","n","u","x">>, category |-> <<"f","i","l","e","_","e","v","e","n","t">>]

(***************************************************************************)
(* The KQL tables                                                          *)
(***************************************************************************)
\* the tables of each platform by id prefix, in test order
KqlPlatformTable ==
    <<[platform |-> <<"w","i","n","d","o","w","s">>, prefix |-> <<"T","1","0","5","5">>, tables |-> <<<<"S","e","c","u","r","i","t","y","E","v","e","n","t">>, <<"W","i","n","d","o","w","s","E","v","e","n","t">>, <<"S","e","c","u","r","i","t","y","A","l","e","r","t">>>>],
      [platform |-> <<"w","i","n","d","o","w","s">>, prefix |-> <<"T","1","0","5","9">>, tables |-> <<<<"S","e","c","u","r","i","t","y","E","v","e","n","t">>, <<"W","i","n","d","o","w","s","E","v","e","n","t">>, <<"P","r","o","c","e","s","s","E","v","e","n","t","s">>>>],
      [platform |-> <<"w","i","n","d","o","w","s">>, prefix |-> <<"T","1","5","4","7">>, tables |-> <<<<"S","e","c","u","r","i","t","y","E","v","e","n","t">>, <<"W","i","n","d","o","w","s","E","v","e","n","t">>, <<"R","e","g","i","s","t","r","y","E","v","e","n","t","s">>>>],
      [platform |-> <<"w","i","n","d","o","w","s">>, prefix |-> <<"T","1","0","7","8">>, tables |-> <<<<"S","e","c","u","r","i","t","y","E","v","e","n","t">>, <<"S","i","g","n","i","n","L","o","g","s">>, <<"A","u","d","i","t","L","o","g","s">>>>],
      [platform |-> <<"w","i","n","d","o","w","s">>, prefix |-> <<"T","1","0","7","1">>, tables |-> <<<<"N","e","t","w","o","r","k","E","v","e","n","t","s">>, <<"D","n","s","E","v","e","n","t","s">>, <<"C","o","m","m","o","n","S","e","c","u","r","i","t","y","L","o","g">>>>],
      [platform |-> <<"l","i","n","u","x">>, prefix |-> <<"T","1","0","5","9">>, tables |-> <<<<"S","y","s","l","o","g">>, <<"L","i","n","u","x","A","u","d","i","t","L","o","g","s">>>>],
      [platform |-> <<"l","i","n","u","x">>, prefix |-> <<"T","1","5","4","7">>, tables |-> <<<<"S","y","s","l","o","g">>, <<"L","i","n","u","x","A","u","d","i","t","L","o","g","s">>>>],
      [platform |-> <<"l","i","n","u","x">>, prefix |-> <<"T","1","0","7","8">>, tables |-> <<<<"S","y","s","l","o","g">>, <<"L","i","n","u","x","A","u","d","i","t","L","o","g","s">>>>],
      [platform |-> <<"l","i","n","u","x">>, prefix |-> <<"T","1","0","7","1">>, tables |-> <<<<"N","e","t","w","o","r","k","E","v","e","n","t","s">>, <<"D","n","s","E","v","e","n","t","s">>>>],
      [platform |-> <<"m","a","c","o","s">>, prefix |-> <<"T","1","0","5","9">>, tables |-> <<<<"M","a","c","O","S","A","u","d","i","t","L","o","g","s">>, <<"S","y","s","l","o","g">>>>],
      [platform |-> <<"m","a","c","o","s">>, prefix |-> <<"T","1","5","4","7">>, tables |-> <<<<"M","a","c","O","S","A","u","d","i","t","L","o","g","s">>, <<"S","y","s","l","o","g">>>>],
      [platform |-> <<"m","a","c","o","s">>, prefix |-> <<"T","1","0","7","8">>, tables |-> <<<<"M","a","c","O","S","A","u","d","i","t","L","o","g","s">>, <<"S","y","s","l","o","g">>>>]>>

\* the tables the branch of one platform adds for tech
KqlTablesOfPlatform(tech, platform) ==
    LET rows == {r \in DOMAIN KqlPlatformTable :
                    /\ KqlPlatformTable[r].platform = platform
                    /\ StartsWith(tech.id, KqlPlatformTable[r].prefix)}
    IN IF rows = {} \/ \A i \in DOMAIN tech.platforms : Lower(tech.platforms[i]) # platform
       THEN << >>
       ELSE KqlPlatformTable[CHOOSE r \in rows : \A q \in rows : r <= q].tables

\* the tables in the order the code sees them, before duplicates are dropped
KqlTablesSeen(tech) ==
    KqlTablesOfPlatform(tech, <<"w","i","n","d","o","w","s">>) \o KqlTablesOfPlatform(tech, <<"l","i","n","u","x">>)
    \o KqlTablesOfPlatform(tech, <<"m","a","c","o","s">>) \o <<<<"S","e","c","u","r","i","t","y","A","l","e","r","t">>, <<"S","e","c","u","r","i","t","y","I","n","c","i","d","e","n","t">>>>

\* C20: _determine_tables returns the tables of the Windows, Linux and macOS
\* branches and the two agnostic tables, each once, in the order in which
\* they are first seen, and the last two are SecurityAlert and
\* SecurityIncident
C20_TablesDedupedAgnosticLast ==
    Did("KqlConverter._determine_tables") =>
        /\ ~Raised(last.out)
        /\ LET out == last.out.value
               seen == KqlTablesSeen(technique)
               First(x) == CHOOSE i \in DOMAIN seen : seen[i] = x /\ \A j \in 1..(i - 1) : seen[j] # x
           IN /\ \A i, j \in DOMAIN out : i # j => out[i] # out[j]
              /\ {out[i] : i \in DOMAIN out} = {seen[i] : i \in DOMAIN seen}
              /\ \A i, j \in DOMAIN out : i < j => First(out[i]) < First(out[j])
              /\ Len(out) >= 2
              /\ out[Len(out) - 1] = <<"S","e","c","u","r","i","t","y","A","l","e","r","t">>
              /\ out[Len(out)] = <<"S","e","c","u","r","i","t","y","I","n","c","i","d","e","n","t">>

\* a call on a technique whose branches name a table twice, apart from each
\* other
C20_Witness ==
    /\ Did("KqlConverter._determine_tables")
    /\ ~Raised(last.out)
    /\ \E i, j \in DOMAIN KqlTablesSeen(technique) :
          /\ i + 1 < j
          /\ KqlTablesSeen(technique)[i] = KqlTablesSeen(technique)[j]

(***************************************************************************)
(* The KQL query                                                           *)
(***************************************************************************)
\* the tables of the parts the literal and network indicators of tech call
\* for, in the order processes, files, registry keys, network
KqlIndicatorTables(tech) ==
    LET network == get_common_network_indicators(tech)
        Has(m) == \E i \in DOMAIN network : Contains(network[i], m)
    IN (IF get_common_processes(tech) # << >> THEN <<<<"P","r","o","c","e","s","s","E","v","e","n","t","s">>>> ELSE << >>)
       \o (IF get_common_files(tech) # << >> THEN <<<<"F","i","l","e","E","v","e","n","t","s">>>> ELSE << >>)
       \o (IF get_common_registry_keys(tech) # << >> THEN <<<<"R","e","g","i","s","t","r","y","E","v","e","n","t","s">>>> ELSE << >>)
       \o (IF network = << >> THEN << >>
           ELSE (IF Has(<<"D","N","S">>) THEN <<<<"D","n","s","E","v","e","n","t","s">>>> ELSE << >>)
                \o (IF Has(<<"H","T","T","P">>) THEN <<<<"N","e","t","w","o","r","k","E","v","e","n","t","s">>>> ELSE << >>)
                \o <<<<"N","e","t","w","o","r","k","E","v","e","n","t","s">>>>)

\* C21: _generate_query_parts returns parts that begin, in the order
\* processes, files, registry keys, network, with one part for each non-empty
\* list, the network list giving the DNS clause iff an indicator contains
\* "DNS", the HTTP clause iff one contains "HTTP", and always one generic
\* clause over all its indicators
C21_QueryPartsInFixedOrder ==
    Did("KqlConverter._generate_query_parts") =>
        /\ ~Raised(last.out)
        /\ LET parts == last.out.value
               tables == KqlIndicatorTables(technique)
               network == get_common_network_indicators(technique)
           IN /\ tables # << >> =>
                    /\ Len(parts) >= Len(tables)
                    /\ \A i \in DOMAIN tables : parts[i].table = tables[i]
              /\ network # << >> =>
                    \E i \in DOMAIN parts :
                        parts[i].where =
                            <<"(">> \o Join(<<" ","o","r"," ">>,
                                [j \in DOMAIN network |->
                                    <<"N","e","t","w","o","r","k","P","r","o","t","o","c","o","l"," ","c","o","n","t","a","i","n","s"," ">> \o DQ \o network[j] \o DQ
                                    \o <<" ","o","r"," ","R","e","q","u","e","s","t","U","R","L"," ","c","o","n","t","a","i","n","s"," ">> \o DQ \o network[j] \o DQ])
                            \o <<")">>

\* whether the double quote at position i of a where-clause delimits a value
\* (it opens one after "contains ", or closes one before " or " or before the
\* final parenthesis) or is preceded by a backslash
KqlQuoteDelimitsOrEscaped(where, i) ==
    \/ i > 1 /\ where[i - 1] = "\\"
    \/ i > 9 /\ SubSeq(where, i - 9, i - 1) = <<"c","o","n","t","a","i","n","s"," ">>
    \/ i = Len(where) - 1
    \/ i + 4 <= Len(where) /\ SubSeq(where, i + 1, i + 4) = <<" ","o","r"," ">>

\* C22: _generate_query_parts returns parts in which the commands clause
\* carries each command value with every double quote of the value preceded
\* by a backslash
C22_CommandValuesEscaped ==
    Did("KqlConverter._generate_query_parts") =>
        /\ ~Raised(last.out)
        /\ \A p \in DOMAIN last.out.value :
              StartsWith(last.out.value[p].where, <<"(","C","o","m","m","a","n","d","L","i","n","e"," ","c","o","n","t","a","i","n","s"," ">>) =>
                  \A i \in DOMAIN last.out.value[p].where :
                      last.out.value[p].where[i] = "\"" =>
                          KqlQuoteDelimitsOrEscaped(last.out.value[p].where, i)

\* C23: the keywords of the description are its first 10 distinct lowercased
\* word tokens longer than 3 characters and outside the stop words, in order
\* of first occurrence; _generate_query_parts returns the single generic
\* clause over them when no indicator gave a part, the description is not
\* empty and there is a keyword, and no such clause otherwise
C23_KeywordFallbackClause ==
    Did("KqlConverter._generate_query_parts") =>
        LET keywords == extract_keywords_from_description(technique.description)
            words == FindWords(Lower(technique.description), << >>)
            Qualifies(w) == Len(w) > 3 /\ w \notin Range(common_words)
            qualifying == SelectSeq(words, Qualifies)
            First(w) == CHOOSE i \in DOMAIN qualifying :
                            qualifying[i] = w /\ \A j \in 1..(i - 1) : qualifying[j] # w
        IN /\ Len(keywords) <= 10
           /\ \A i, j \in DOMAIN keywords : i # j => keywords[i] # keywords[j]
           /\ Range(keywords) \subseteq Range(qualifying)
           /\ \A i, j \in DOMAIN keywords : i < j => First(keywords[i]) < First(keywords[j])
           /\ Len(keywords) < 10 => Range(keywords) = Range(qualifying)
           /\ ~Raised(last.out)
           /\ IF KqlIndicatorTables(technique) = << >> /\ keywords # << >>
              THEN /\ Len(last.out.value) = 1
                   /\ last.out.value[1].table = <<"S","e","c","u","r","i","t","y","E","v","e","n","t">>
                   /\ last.out.value[1].where =
                         <<"(">> \o Join(<<" ","o","r"," ">>, [i \in DOMAIN keywords |->
                                   <<"(","E","v","e","n","t"," ","c","o","n","t","a","i","n","s"," ">> \o DQ \o keywords[i] \o DQ \o <<")">>]) \o <<")">>
              ELSE \A i \in DOMAIN last.out.value : last.out.value[i].table # <<"S","e","c","u","r","i","t","y","E","v","e","n","t">>

\* the distinct tables of a list of parts, in first-seen order
KqlDistinctTables(parts) ==
    LET IsFirst(i) == \A j \in 1..(i - 1) : parts[j].table # parts[i].table
        F[i \in 0..Len(parts)] ==
            IF i = 0 THEN << >>
            ELSE IF IsFirst(i) THEN Append(F[i - 1], parts[i].table) ELSE F[i - 1]
    IN F[Len(parts)]

\* the table-query of one table: its where-clause OR-joins the conditions of
\* the parts of that table
KqlQueryOfTable(parts, table) ==
    LET Of(p) == p.table = table
        mine == SelectSeq(parts, Of)
    IN table \o <<" ","|"," ","w","h","e","r","e"," ">> \o Join(<<" ","o","r"," ">>, [i \in DOMAIN mine |-> <<"(">> \o mine[i].where \o <<")">>])

\* C24: build_full_query returns, when there is a query part, a text whose
\* last four lines are the table-queries, one per distinct table of the parts
\* in first-seen order and joined by " | union " when several, then the
\* project line, the Technique annotation with id and name, and the sort line
C24_OneQueryPerTable ==
    Did("KqlConverter.build_full_query") =>
        /\ ~Raised(last.out)
        /\ ~Raised(KqlGenerateQueryParts(technique))
        /\ LET parts == KqlGenerateQueryParts(technique).value
               tables == KqlDistinctTables(parts)
               lines == Split(last.out.value, "\n")
               n == Len(lines)
           IN parts # << >> =>
                 /\ n >= 4
                 /\ lines[n - 3] = Join(<<" ","|"," ","u","n","i","o","n"," ">>, [i \in DOMAIN tables |-> KqlQueryOfTable(parts, tables[i])])
                 /\ StartsWith(lines[n - 2], <<"|"," ","p","r","o","j","e","c","t"," ","T","i","m","e","G","e","n","e","r","a","t","e","d",","," ">>)
                 /\ lines[n - 1] = <<"|"," ","e","x","t","e","n","d"," ","T","e","c","h","n","i","q","u","e"," ","="," ","'","M","I","T","R","E"," ","A","T","T","&","C","K"," ">> \o technique.id \o <<":"," ">>
                                      \o technique.name \o <<"'">>
                 /\ lines[n] = <<"|"," ","s","o","r","t"," ","b","y"," ","T","i","m","e","G","e","n","e","r","a","t","e","d"," ","d","e","s","c">>

\* C25: build_full_query returns without raising; the result is the two-line
\* comment-only placeholder exactly when the technique has no indicator and
\* its description has no keyword, and contains a where clause otherwise
C25_PlaceholderWhenNoParts ==
    Did("KqlConverter.build_full_query") =>
        /\ ~Raised(last.out)
        /\ LET noparts ==
                   /\ KqlIndicatorTables(technique) = << >>
                   /\ extract_keywords_from_description(technique.description) = << >>
               lines == Split(last.out.value, "\n")
           IN IF noparts
              THEN /\ Len(lines) = 2
                   /\ \A i \in DOMAIN lines : StartsWith(lines[i], <<"/","/">>)
              ELSE Contains(last.out.value, <<" ","|"," ","w","h","e","r","e"," ">>)

(***************************************************************************)
(* The contexts handed to the renderer                                     *)
(***************************************************************************)
\* C26: each of the three converters hands the renderer a context with the
\* id, name, description, tactics and platforms of the technique, the fixed
\* author string and the reference URL <base>/<id with "." as "/">/
C26_SharedContextFields ==
    \A op \in ConvertOps :
        Did(op) =>
            /\ ~Raised(last.out)
            /\ {"id", "name", "description", "tactics", "platforms", "author", "reference"}
                  \subseteq DOMAIN last.out.value.context
            /\ last.out.value.context.id = technique.id
            /\ last.out.value.context.name = technique.name
            /\ last.out.value.context.description = technique.description
            /\ last.out.value.context.tactics = technique.tactics
            /\ last.out.value.context.platforms = technique.platforms
            /\ last.out.value.context.author = <<"M","I","T","R","E"," ","A","T","T","&","C","K"," ","S","i","g","n","a","t","u","r","e"," ","C","o","n","v","e","r","t","e","r">>
            /\ last.out.value.context.reference =
                  <<"h","t","t","p","s",":","/","/","a","t","t","a","c","k",".","m","i","t","r","e",".","o","r","g","/","t","e","c","h","n","i","q","u","e","s">> \o <<"/">>
                  \o ReplaceChar(technique.id, ".", <<"/">>) \o <<"/">>

(***************************************************************************)
(* The indicator lookups                                                   *)
(***************************************************************************)
\* the family of a technique: its id up to the sub-technique separator
IndicatorFamily(tech) == SplitFirst(tech.id, ".")

\* whether some platform of tech is one of names, without regard to case
PlatformApplies(tech, names) ==
    \E i \in DOMAIN tech.platforms : Lower(tech.platforms[i]) \in names

\* what each lookup gives when the family is the id before the separator and
\* the platform families are windows and linux or macos
IndicatorsByFamily(tech) ==
    LET family == IndicatorFamily(tech)
        win == PlatformApplies(tech, {<<"w","i","n","d","o","w","s">>})
        unix == PlatformApplies(tech, {<<"l","i","n","u","x">>, <<"m","a","c","o","s">>})
        Of(table) == IF \E i \in DOMAIN table : table[i].k = family
                     THEN table[CHOOSE i \in DOMAIN table : table[i].k = family].v
                     ELSE << >>
    IN [get_common_processes |->
            (IF win THEN Of(windows_processes) ELSE << >>)
            \o (IF unix THEN Of(unix_processes) ELSE << >>),
        get_common_files |->
            (IF win THEN Of(<<[k |-> <<"T","1","5","4","7">>, v |-> windows_autostart_files],
                              [k |-> <<"T","1","0","5","9">>, v |-> windows_script_files]>>) ELSE << >>)
            \o (IF unix THEN Of(<<[k |-> <<"T","1","5","4","7">>, v |-> unix_autostart_files]>>) ELSE << >>),
        get_common_registry_keys |->
            IF win THEN Of(<<[k |-> <<"T","1","5","4","7">>, v |-> autostart_registry_keys],
                             [k |-> <<"T","1","1","1","2">>, v |-> modify_registry_keys]>>) ELSE << >>,
        get_common_network_indicators |->
            get_common_network_indicators([id |-> family]),
        get_environment_agnostic_patterns |->
            get_environment_agnostic_patterns([id |-> family])]

\* C27: each of the five indicator lookups returns what the tables give for
\* the family of the technique (its id before the separator) and for the
\* platform families windows, linux and macos that its platforms name without
\* regard to case, so that all lookups agree on both
C27_LookupsAgreeOnFamilyAndPlatform ==
    /\ Did("Technique.get_common_processes")
          => last.out = Return(IndicatorsByFamily(technique).get_common_processes)
    /\ Did("Technique.get_common_files")
          => last.out = Return(IndicatorsByFamily(technique).get_common_files)
    /\ Did("Technique.get_common_registry_keys")
          => last.out = Return(IndicatorsByFamily(technique).get_common_registry_keys)
    /\ Did("Technique.get_common_network_indicators")
          => last.out = Return(IndicatorsByFamily(technique).get_common_network_indicators)
    /\ Did("Technique.get_environment_agnostic_patterns")
          => last.out = Return(IndicatorsByFamily(technique).get_environment_agnostic_patterns)

(***************************************************************************)
(* Consistency of the contexts                                             *)
(***************************************************************************)
\* the string ids a condition fragment refers to: what follows each "$" up
\* to the next "," or ")"
YaraReferences(fragment) ==
    LET pieces == Tail(Split(fragment, "$"))
    IN [i \in DOMAIN pieces |-> SplitFirst(SplitFirst(pieces[i], ","), ")")]

\* C28: in the context YaraConverter.convert renders, every id a condition
\* fragment refers to is the id of an entry of strings, and every entry of
\* strings is referred to exactly once over all fragments
C28_ConditionsReferToStrings ==
    (Did("YaraConverter.convert") /\ ~Raised(last.out)) =>
        LET strings == last.out.value.context.strings
            conditions == last.out.value.context.conditions
        IN /\ \A c \in DOMAIN conditions : \A r \in DOMAIN YaraReferences(conditions[c]) :
                 \E k \in DOMAIN strings : strings[k].id = YaraReferences(conditions[c])[r]
           /\ \A k \in DOMAIN strings :
                 Cardinality({<<c, r>> \in (DOMAIN conditions) \X (1..Len(strings)) :
                                 /\ r \in DOMAIN YaraReferences(conditions[c])
                                 /\ YaraReferences(conditions[c])[r] = strings[k].id}) = 1

\* a rendered context with text and regex strings spread over several
\* fragments, one of them an "any of"
C28_Witness ==
    /\ Did("YaraConverter.convert")
    /\ ~Raised(last.out)
    /\ Len(last.out.value.context.conditions) >= 2
    /\ \E k, l \in DOMAIN last.out.value.context.strings :
          /\ last.out.value.context.strings[k].type = <<"t","e","x","t">>
          /\ last.out.value.context.strings[l].type = <<"r","e","g","e","x">>
    /\ \E c \in DOMAIN last.out.value.context.conditions :
          Len(YaraReferences(last.out.value.context.conditions[c])) >= 2

\* C29: _generate_detection returns a selection, and whenever the selection
\* holds the registry field TargetObject|contains the product
\* _determine_logsource gives for the same technique is windows
C29_RegistryFieldOnlyOnWindows ==
    Did("SigmaConverter._generate_detection") =>
        /\ ~Raised(last.out)
        /\ (\E i \in DOMAIN last.out.value.selection :
                last.out.value.selection[i].k = <<"T","a","r","g","e","t","O","b","j","e","c","t","|","c","o","n","t","a","i","n","s">>)
              => SigmaDetermineLogsource(technique).product = <<"w","i","n","d","o","w","s">>

(***************************************************************************)
(* The files of convert_technique                                          *)
(***************************************************************************)
\* C30: a call of convert_technique with format 'all' that returns False
\* leaves the output directory as it was, and one that returns True leaves
\* the .yar, .yml and .kql file of the technique in it
C30_AllFormatsOrNothing ==
    [][(last'.op = "convert_technique" /\ last'.arg.format = <<"a","l","l">>) =>
          /\ last'.out = Return(FALSE) => output_files' = output_files
          /\ last'.out = Return(TRUE) =>
                \A ext \in {<<".","y","a","r">>, <<".","y","m","l">>, <<".","k","q","l">>} :
                    \E i \in DOMAIN output_files' : output_files'[i].k = technique.id \o ext]_vars

=============================================================================
